--------------------------- MODULE BulkDataProofs ---------------------------
(***************************************************************************)
(* Proofs about BulkData for every number of workers, every set of items,  *)
(* every dispatch size and every number of failures.                       *)
(***************************************************************************)
EXTENDS BulkData, SequenceTheorems, FiniteSetTheorems, TLAPS

\* Appending to a sequence, in the form the steps below use it.
LEMMA AppendFacts ==
    ASSUME NEW S, NEW s \in Seq(S), NEW x \in S
    PROVE  /\ Append(s, x) \in Seq(S)
           /\ Append(s, x) # <<>>
           /\ Len(Append(s, x)) = Len(s) + 1
           /\ \A k \in 1 .. Len(s) : Append(s, x)[k] = s[k]
           /\ Append(s, x)[Len(s) + 1] = x
  BY AppendProperties

\* Removing the first element of a sequence.
LEMMA RemoveFacts ==
    ASSUME NEW S, NEW s \in Seq(S), s # <<>>
    PROVE  /\ Head(s) \in S
           /\ Head(s) = s[1]
           /\ Len(s) \in Nat \ {0}
           /\ Tail(s) \in Seq(S)
           /\ Len(Tail(s)) = Len(s) - 1
           /\ \A k \in 1 .. Len(s) - 1 : Tail(s)[k] = s[k + 1]
  <1>1. Len(s) \in Nat \ {0}
    BY EmptySeq
  <1>2. Head(s) = s[1]
    OBVIOUS
  <1> QED
    BY <1>1, <1>2, HeadTailProperties

\* The elements of a sequence form a set that is finite and no larger than the
\* sequence is long.
LEMMA RangeFacts ==
    ASSUME NEW S, NEW s \in Seq(S)
    PROVE  /\ Range(s) = {s[k] : k \in 1 .. Len(s)}
           /\ Range(s) \subseteq S
           /\ IsFiniteSet(Range(s))
           /\ Cardinality(Range(s)) =< Len(s)
  <1>1. Len(s) \in Nat /\ s \in [1 .. Len(s) -> S] /\ DOMAIN s = 1 .. Len(s)
    BY LenProperties
  <1>2. Range(s) = {s[k] : k \in 1 .. Len(s)}
    BY <1>1 DEF Range
  <1>3. Range(s) \subseteq S
    BY <1>1, <1>2
  <1>4. s \in Surjection(1 .. Len(s), Range(s))
    BY <1>1, <1>2 DEF Surjection
  <1>5. IsFiniteSet(1 .. Len(s)) /\ Cardinality(1 .. Len(s)) = Len(s)
    BY <1>1, FS_Interval
  <1>6. IsFiniteSet(Range(s)) /\ Cardinality(Range(s)) =< Len(s)
    BY <1>4, <1>5, FS_Surjection
  <1> QED
    BY <1>2, <1>3, <1>6

-----------------------------------------------------------------------------
(* Types. *)

LEMMA InitType == Init => BulkTypeOK
  <1> SUFFICES ASSUME Init
               PROVE  BulkTypeOK
    OBVIOUS
  <1>1. <<>> \in Seq(Items) /\ Len(<<>>) = 0
    BY EmptySeq
  <1>2. MaxDispatchSize \in Nat \ {0} /\ failures \in 0 .. MaxFailures
    BY BulkDataAssumption DEF BulkDataAssumption, Init
  <1>3. \A w \in Workers : worker[w] = "polling" /\ retrievedItems[w] = <<>>
    BY DEF Init
  <1>4. retrievedItems \in [Workers -> Seq(Items)]
    BY <1>1 DEF Init
  <1>5. isPaused \in BOOLEAN /\ reply \in [Workers -> BOOLEAN]
    BY DEF Init
  <1>6. /\ worker \in [Workers -> WorkerState]
        /\ cursor \in [Workers -> Nat]
        /\ added \in SUBSET Items /\ sent \in SUBSET Items
        /\ deliveries \in [Items -> Nat]
    BY DEF Init, WorkerState
  <1> QED
    BY <1>1, <1>2, <1>3, <1>4, <1>5, <1>6 DEF Init, BulkTypeOK

LEMMA NextType == BulkTypeOK /\ [Next]_bulkVars => BulkTypeOK'
  <1> SUFFICES ASSUME BulkTypeOK, [Next]_bulkVars
               PROVE  BulkTypeOK'
    OBVIOUS
  <1> USE BulkDataAssumption DEF BulkDataAssumption
  <1>1. ASSUME NEW i \in Items, AddMessage(i)
        PROVE  BulkTypeOK'
    <2>1. queue' \in Seq(Items)
      BY <1>1, AppendFacts DEF BulkTypeOK, AddMessage
    <2> QED
      BY <1>1, <2>1 DEF BulkTypeOK, AddMessage
  <1>2. ASSUME NEW w \in Workers, Take(w)
        PROVE  BulkTypeOK'
    <2> DEFINE batch == retrievedItems[w]
    <2>1. queue' \in Seq(Items) /\ Head(queue) \in Items
      BY <1>2, RemoveFacts DEF BulkTypeOK, Take
    <2>2. batch \in Seq(Items) /\ Len(batch) \in Nat /\ Len(batch) < MaxDispatchSize
      BY <1>2, LenProperties DEF BulkTypeOK, Take
    <2>3. /\ retrievedItems'[w] = Append(batch, Head(queue))
          /\ \A v \in Workers \ {w} : retrievedItems'[v] = retrievedItems[v]
          /\ retrievedItems' \in [Workers -> Seq(Items)]
      <3>1. retrievedItems' = [retrievedItems EXCEPT ![w] = Append(batch, Head(queue))]
        BY <1>2 DEF Take
      <3>2. Append(batch, Head(queue)) \in Seq(Items)
        BY <2>1, <2>2, AppendFacts
      <3> QED
        BY <3>1, <3>2 DEF BulkTypeOK
    <2>4. Len(retrievedItems'[w]) = Len(batch) + 1 /\ retrievedItems'[w] # <<>>
      <3>1. Len(Append(batch, Head(queue))) = Len(batch) + 1 /\ Append(batch, Head(queue)) # <<>>
        BY <2>1, <2>2, AppendFacts
      <3> QED
        BY <2>3, <3>1
    <2>5. worker' \in [Workers -> WorkerState]
      BY <1>2 DEF BulkTypeOK, Take, WorkerState
    <2>6. ASSUME NEW v \in Workers
          PROVE  /\ Len(retrievedItems'[v]) =< MaxDispatchSize
                 /\ worker'[v] = "polling" => Len(retrievedItems'[v]) < MaxDispatchSize
                 /\ worker'[v] # "polling" => retrievedItems'[v] # <<>>
                 /\ worker'[v] = "notifying" => cursor'[v] =< Len(retrievedItems'[v])
      <3>1. CASE v = w
        BY <1>2, <2>2, <2>4, <3>1 DEF BulkTypeOK, Take
      <3>2. CASE v # w
        BY <1>2, <2>3, <2>6, <3>2 DEF BulkTypeOK, Take
      <3> QED
        BY <3>1, <3>2
    <2> QED
      BY <1>2, <2>1, <2>3, <2>5, <2>6 DEF BulkTypeOK, Take, historyVars
  <1>3. ASSUME NEW w \in Workers, Flush(w)
        PROVE  BulkTypeOK'
    BY <1>3 DEF BulkTypeOK, Flush, historyVars, WorkerState
  <1>4. ASSUME NEW w \in Workers, NEW paused \in BOOLEAN, Handle(w, paused)
        PROVE  BulkTypeOK'
    BY <1>4 DEF BulkTypeOK, Handle, WorkerState
  <1>5. ASSUME NEW w \in Workers, ReceiveReply(w)
        PROVE  BulkTypeOK'
    <2>1. \A v \in Workers : Len(retrievedItems[v]) \in Nat
      BY LenProperties DEF BulkTypeOK
    <2> QED
      BY <1>5, <2>1 DEF BulkTypeOK, ReceiveReply, historyVars, WorkerState
  <1>6. ASSUME NEW w \in Workers, NotifyItem(w)
        PROVE  BulkTypeOK'
    <2>1. \A v \in Workers : Len(retrievedItems[v]) \in Nat
      BY LenProperties DEF BulkTypeOK
    <2> QED
      BY <1>6, <2>1 DEF BulkTypeOK, NotifyItem, historyVars, WorkerState
  <1>7. ASSUME NEW w \in Workers, FinishPublish(w)
        PROVE  BulkTypeOK'
    <2>1. sent' \in SUBSET Items
      BY <1>7, RangeFacts DEF BulkTypeOK, FinishPublish
    <2>2. <<>> \in Seq(Items) /\ Len(<<>>) = 0
      BY EmptySeq
    <2> QED
      BY <1>7, <2>1, <2>2 DEF BulkTypeOK, FinishPublish, WorkerState
  <1>8. ASSUME NEW w \in Workers, PutFails(w)
        PROVE  BulkTypeOK'
    BY <1>8 DEF BulkTypeOK, PutFails, historyVars, WorkerState
  <1>9. ASSUME NEW w \in Workers, HandlerFails(w)
        PROVE  BulkTypeOK'
    <2>1. deliveries' \in [Items -> Nat]
      BY <1>9 DEF BulkTypeOK, HandlerFails
    <2> QED
      BY <1>9, <2>1 DEF BulkTypeOK, HandlerFails, WorkerState
  <1>10. ASSUME UNCHANGED bulkVars
         PROVE  BulkTypeOK'
    BY <1>10 DEF BulkTypeOK, bulkVars
  <1> QED
    BY <1>1, <1>2, <1>3, <1>4, <1>5, <1>6, <1>7, <1>8, <1>9, <1>10
       DEF Next, WorkerStep, ServerStep, Failure

\* Every variable keeps its type and no batch outgrows its limit, whatever the
\* number of workers, the dispatch size and the failures.
THEOREM TypeCorrect == Spec => []BulkTypeOK
  BY InitType, NextType, PTL DEF Spec

-----------------------------------------------------------------------------
(* One place for every item. *)

\* The elements of a worker's batch are the items that it holds.
LEMMA HeldIsRange ==
    ASSUME BulkTypeOK, NEW w \in Workers
    PROVE  \A i \in Items : i \in Range(retrievedItems[w]) <=> HeldBy(w, i)
  BY RangeFacts DEF BulkTypeOK, HeldBy

\* The steps that move no item leave NothingTwice as it is.
Unmoved == UNCHANGED <<queue, retrievedItems, added, sent>>

LEMMA StepUnmoved ==
    ASSUME NEW w \in Workers,
           Flush(w) \/ ServerStep(w) \/ ReceiveReply(w) \/ NotifyItem(w) \/ Failure(w)
    PROVE  Unmoved
  <1>1. CASE Flush(w) \/ ReceiveReply(w) \/ NotifyItem(w)
    BY <1>1 DEF Unmoved, Flush, ReceiveReply, NotifyItem, historyVars
  <1>2. CASE ServerStep(w)
    BY <1>2 DEF Unmoved, ServerStep, Handle
  <1>3. CASE Failure(w)
    BY <1>3 DEF Unmoved, Failure, PutFails, HandlerFails, historyVars
  <1> QED
    BY <1>1, <1>2, <1>3

LEMMA UnmovedTwice == NothingTwice /\ Unmoved => NothingTwice'
  BY DEF NothingTwice, OnePlace, Queued, HeldBy, Unmoved

LEMMA InitTwice == Init => NothingTwice
  <1> SUFFICES ASSUME Init
               PROVE  NothingTwice
    OBVIOUS
  <1>1. Len(<<>>) = 0
    BY EmptySeq
  <1> QED
    BY <1>1 DEF Init, NothingTwice, OnePlace, Queued, HeldBy

\* An item that was handed in before is in none of the two places a new one joins.
LEMMA AddTwice ==
    ASSUME BulkTypeOK, NothingTwice, NEW i \in Items, AddMessage(i)
    PROVE  NothingTwice'
  <1>1. /\ Len(queue) \in Nat
        /\ Len(queue') = Len(queue) + 1
        /\ \A k \in 1 .. Len(queue) : queue'[k] = queue[k]
        /\ queue'[Len(queue) + 1] = i
    BY AppendFacts, LenProperties DEF BulkTypeOK, AddMessage
  <1>2. /\ retrievedItems' = retrievedItems /\ sent' = sent
        /\ added' = added \cup {i} /\ i \notin added
    BY DEF AddMessage
  <1>3. i \notin sent /\ ~Queued(i) /\ \A w \in Workers : ~HeldBy(w, i)
    BY <1>2 DEF NothingTwice, OnePlace
  <1>4. \A k \in 1 .. Len(queue) : queue[k] # i
    BY <1>3 DEF Queued
  <1>5. \A j, k \in 1 .. Len(queue') : queue'[j] = queue'[k] => j = k
    BY <1>1, <1>4 DEF NothingTwice
  <1>6. \A h \in Items : Queued(h)' => h = i \/ Queued(h)
    BY <1>1 DEF Queued
  <1>7. \A h \in Items, w \in Workers : HeldBy(w, h)' <=> HeldBy(w, h)
    BY <1>2 DEF HeldBy
  <1>8. OnePlace'
    BY <1>2, <1>3, <1>6, <1>7 DEF NothingTwice, OnePlace
  <1> QED
    BY <1>2, <1>5, <1>8 DEF NothingTwice

\* What one worker polls no other worker polls, and nobody holds it yet.
LEMMA TakeTwice ==
    ASSUME BulkTypeOK, NothingTwice, NEW w \in Workers, Take(w)
    PROVE  NothingTwice'
  <1> DEFINE batch == retrievedItems[w]
             item  == Head(queue)
  <1>1. /\ item \in Items /\ item = queue[1]
        /\ Len(queue) \in Nat \ {0}
        /\ queue' \in Seq(Items)
        /\ Len(queue') = Len(queue) - 1
        /\ \A k \in 1 .. Len(queue) - 1 : queue'[k] = queue[k + 1]
    BY RemoveFacts DEF BulkTypeOK, Take
  <1>2. /\ retrievedItems'[w] = Append(batch, item)
        /\ \A v \in Workers \ {w} : retrievedItems'[v] = retrievedItems[v]
        /\ added' = added /\ sent' = sent
    BY DEF BulkTypeOK, Take, historyVars
  <1>3. batch \in Seq(Items) /\ Len(batch) \in Nat
    BY LenProperties DEF BulkTypeOK
  <1>4. /\ Len(retrievedItems'[w]) = Len(batch) + 1
        /\ \A k \in 1 .. Len(batch) : retrievedItems'[w][k] = batch[k]
        /\ retrievedItems'[w][Len(batch) + 1] = item
    BY <1>1, <1>2, <1>3, AppendFacts
  <1>5. Queued(item) /\ item \in added \ sent /\ \A v \in Workers : ~HeldBy(v, item)
    <2>1. Queued(item)
      BY <1>1 DEF Queued
    <2> QED
      BY <1>1, <2>1 DEF NothingTwice, OnePlace
  <1>6. \A v \in Workers : \A k \in 1 .. Len(retrievedItems[v]) : retrievedItems[v][k] # item
    BY <1>5 DEF HeldBy
  <1>7. \A j, k \in 1 .. Len(queue') : queue'[j] = queue'[k] => j = k
    BY <1>1 DEF NothingTwice
  <1>8. ASSUME NEW v \in Workers \ {w},
               NEW j \in 1 .. Len(retrievedItems'[w]), NEW k \in 1 .. Len(retrievedItems'[v])
        PROVE  retrievedItems'[w][j] # retrievedItems'[v][k]
    <2>1. retrievedItems'[v] = retrievedItems[v] /\ k \in 1 .. Len(retrievedItems[v])
      BY <1>2
    <2>2. CASE j = Len(batch) + 1
      BY <1>4, <1>6, <2>1, <2>2
    <2>3. CASE j \in 1 .. Len(batch)
      <3>1. retrievedItems[w][j] # retrievedItems[v][k]
        BY <2>1, <2>3 DEF NothingTwice
      <3> QED
        BY <1>4, <2>1, <2>3, <3>1
    <2> QED
      BY <1>3, <1>4, <2>2, <2>3
  <1>9. ASSUME NEW u \in Workers, NEW v \in Workers,
                NEW j \in 1 .. Len(retrievedItems'[u]), NEW k \in 1 .. Len(retrievedItems'[v]),
                retrievedItems'[u][j] = retrievedItems'[v][k]
         PROVE  u = v /\ j = k
    <2>1. CASE u = w /\ v = w
      <3>1. j \in 1 .. Len(batch) + 1 /\ k \in 1 .. Len(batch) + 1
        BY <1>4, <1>9, <2>1
      <3>2. \A m \in 1 .. Len(batch) : batch[m] # item
        BY <1>6
      <3>3. \A m, n \in 1 .. Len(batch) : batch[m] = batch[n] => m = n
        BY DEF NothingTwice
      <3>4. retrievedItems'[w][j] = retrievedItems'[w][k]
        BY <1>9, <2>1
      <3>5. CASE j = Len(batch) + 1 /\ k = Len(batch) + 1
        BY <2>1, <3>5
      <3>6. CASE j = Len(batch) + 1 /\ k \in 1 .. Len(batch)
        BY <1>4, <3>2, <3>4, <3>6
      <3>7. CASE j \in 1 .. Len(batch) /\ k = Len(batch) + 1
        BY <1>4, <3>2, <3>4, <3>7
      <3>8. CASE j \in 1 .. Len(batch) /\ k \in 1 .. Len(batch)
        <4>1. batch[j] = batch[k]
          BY <1>4, <3>4, <3>8
        <4> QED
          BY <2>1, <3>3, <3>8, <4>1
      <3>9. \A m \in 1 .. Len(batch) + 1 : m = Len(batch) + 1 \/ m \in 1 .. Len(batch)
        BY <1>3
      <3> QED
        BY <3>1, <3>5, <3>6, <3>7, <3>8, <3>9
    <2>2. CASE u = w /\ v # w
      BY <1>8, <1>9, <2>2
    <2>3. CASE u # w /\ v = w
      BY <1>8, <1>9, <2>3
    <2>4. CASE u # w /\ v # w
      BY <1>2, <1>9, <2>4 DEF NothingTwice
    <2> QED
      BY <2>1, <2>2, <2>3, <2>4
  <1>10. \A h \in Items : Queued(h)' => Queued(h) /\ h # item
    BY <1>1 DEF Queued, NothingTwice
  <1>11. \A h \in Items, v \in Workers : HeldBy(v, h)' => HeldBy(v, h) \/ h = item
    <2> SUFFICES ASSUME NEW h \in Items, NEW v \in Workers, HeldBy(v, h)'
                 PROVE  HeldBy(v, h) \/ h = item
      OBVIOUS
    <2>1. CASE v = w
      <3>1. PICK k \in 1 .. Len(batch) + 1 : retrievedItems'[w][k] = h
        BY <1>4, <2>1 DEF HeldBy
      <3>2. CASE k = Len(batch) + 1
        BY <1>4, <3>1, <3>2
      <3>3. CASE k \in 1 .. Len(batch)
        BY <1>4, <2>1, <3>1, <3>3 DEF HeldBy
      <3> QED
        BY <1>3, <3>1, <3>2, <3>3
    <2>2. CASE v # w
      BY <1>2, <2>2 DEF HeldBy
    <2> QED
      BY <2>1, <2>2
  <1>12. OnePlace'
    BY <1>2, <1>5, <1>10, <1>11 DEF NothingTwice, OnePlace
  <1> QED
    BY <1>7, <1>9, <1>12 DEF NothingTwice

\* A batch that was sent is given up in the step that marks its items as sent.
LEMMA FinishTwice ==
    ASSUME BulkTypeOK, NothingTwice, NEW w \in Workers, FinishPublish(w)
    PROVE  NothingTwice'
  <1> DEFINE batch == retrievedItems[w]
  <1>1. /\ retrievedItems'[w] = <<>>
        /\ \A v \in Workers \ {w} : retrievedItems'[v] = retrievedItems[v]
        /\ queue' = queue /\ added' = added /\ sent' = sent \cup Range(batch)
    BY DEF BulkTypeOK, FinishPublish
  <1>2. Len(retrievedItems'[w]) = 0
    BY <1>1, EmptySeq
  <1>3. batch \in Seq(Items) /\ Range(batch) = {batch[k] : k \in 1 .. Len(batch)}
    BY RangeFacts DEF BulkTypeOK
  <1>4. \A h \in Items : h \in Range(batch) <=> HeldBy(w, h)
    BY <1>3 DEF HeldBy
  <1>5. \A u, v \in Workers :
          \A j \in 1 .. Len(retrievedItems'[u]), k \in 1 .. Len(retrievedItems'[v]) :
             retrievedItems'[u][j] = retrievedItems'[v][k] => u = v /\ j = k
    BY <1>1, <1>2 DEF NothingTwice
  <1>6. \A h \in Items : Queued(h)' <=> Queued(h)
    BY <1>1 DEF Queued
  <1>7. \A h \in Items, v \in Workers : HeldBy(v, h)' => v # w /\ HeldBy(v, h)
    BY <1>1, <1>2 DEF HeldBy
  <1>8. \A h \in Items, v \in Workers : HeldBy(v, h) /\ HeldBy(w, h) => v = w
    BY DEF NothingTwice, HeldBy
  <1>9. Range(batch) \subseteq added
    BY <1>3, <1>4, RangeFacts DEF NothingTwice, OnePlace
  <1>10. OnePlace'
    BY <1>1, <1>4, <1>6, <1>7, <1>8, <1>9 DEF NothingTwice, OnePlace
  <1> QED
    BY <1>1, <1>5, <1>10 DEF NothingTwice

LEMMA NextTwice == BulkTypeOK /\ NothingTwice /\ [Next]_bulkVars => NothingTwice'
  <1> SUFFICES ASSUME BulkTypeOK, NothingTwice, [Next]_bulkVars
               PROVE  NothingTwice'
    OBVIOUS
  <1>1. ASSUME NEW w \in Workers,
               Flush(w) \/ ServerStep(w) \/ ReceiveReply(w) \/ NotifyItem(w) \/ Failure(w)
        PROVE  NothingTwice'
    BY <1>1, StepUnmoved, UnmovedTwice
  <1>2. ASSUME UNCHANGED bulkVars
        PROVE  NothingTwice'
    BY <1>2, UnmovedTwice DEF bulkVars, Unmoved
  <1> QED
    BY <1>1, <1>2, AddTwice, TakeTwice, FinishTwice DEF Next, WorkerStep

\* However many workers share the queue, no item is ever in two places.
THEOREM SingleCopy == Spec => []NothingTwice
  <1>1. Init => BulkTypeOK /\ NothingTwice
    BY InitType, InitTwice
  <1>2. BulkTypeOK /\ NothingTwice /\ [Next]_bulkVars => (BulkTypeOK /\ NothingTwice)'
    BY NextType, NextTwice
  <1> QED
    BY <1>1, <1>2, PTL DEF Spec

-----------------------------------------------------------------------------
(* Nothing is lost. *)

LEMMA InitLost == Init => NothingLost
  BY DEF Init, NothingLost

LEMMA NextLost == BulkTypeOK /\ NothingLost /\ [Next]_bulkVars => NothingLost'
  <1> SUFFICES ASSUME BulkTypeOK, NothingLost, [Next]_bulkVars
               PROVE  NothingLost'
    OBVIOUS
  <1>1. ASSUME NEW i \in Items, AddMessage(i)
        PROVE  NothingLost'
    <2>1. /\ Len(queue) \in Nat
          /\ Len(queue') = Len(queue) + 1
          /\ \A k \in 1 .. Len(queue) : queue'[k] = queue[k]
          /\ queue'[Len(queue) + 1] = i
      BY <1>1, AppendFacts, LenProperties DEF BulkTypeOK, AddMessage
    <2>2. \A h \in added \cup {i} : Queued(h) \/ h = i => Queued(h)'
      BY <2>1 DEF Queued
    <2>3. \A h \in Items, w \in Workers : HeldBy(w, h) <=> HeldBy(w, h)'
      BY <1>1 DEF AddMessage, HeldBy
    <2> QED
      BY <1>1, <2>2, <2>3 DEF BulkTypeOK, AddMessage, NothingLost
  <1>2. ASSUME NEW w \in Workers, Take(w)
        PROVE  NothingLost'
    <2> DEFINE batch == retrievedItems[w]
               item  == Head(queue)
    <2>1. /\ item \in Items /\ item = queue[1]
          /\ Len(queue) \in Nat \ {0}
          /\ Len(queue') = Len(queue) - 1
          /\ \A k \in 1 .. Len(queue) - 1 : queue'[k] = queue[k + 1]
      BY <1>2, RemoveFacts DEF BulkTypeOK, Take
    <2>2. batch \in Seq(Items) /\ Len(batch) \in Nat
      BY LenProperties DEF BulkTypeOK
    <2>3. /\ retrievedItems'[w] = Append(batch, item)
          /\ \A v \in Workers \ {w} : retrievedItems'[v] = retrievedItems[v]
          /\ added' = added /\ sent' = sent
      BY <1>2 DEF BulkTypeOK, Take, historyVars
    <2>4. /\ Len(retrievedItems'[w]) = Len(batch) + 1
          /\ \A k \in 1 .. Len(batch) : retrievedItems'[w][k] = batch[k]
          /\ retrievedItems'[w][Len(batch) + 1] = item
      BY <2>1, <2>2, <2>3, AppendFacts
    <2>5. \A h \in Items : h = item => HeldBy(w, h)'
      <3>1. Len(batch) + 1 \in 1 .. Len(retrievedItems'[w])
        BY <2>2, <2>4
      <3> QED
        BY <2>4, <3>1 DEF HeldBy
    <2>6. \A h \in Items : Queued(h) => Queued(h)' \/ h = item
      <3> SUFFICES ASSUME NEW h \in Items, NEW k \in 1 .. Len(queue), queue[k] = h, h # item
                   PROVE  Queued(h)'
        BY DEF Queued
      <3>1. k # 1 /\ k - 1 \in 1 .. Len(queue') /\ queue'[k - 1] = h
        BY <2>1
      <3> QED
        BY <3>1 DEF Queued
    <2>7. \A h \in Items, v \in Workers : HeldBy(v, h) => HeldBy(v, h)'
      <3> SUFFICES ASSUME NEW h \in Items, NEW v \in Workers, HeldBy(v, h)
                   PROVE  HeldBy(v, h)'
        OBVIOUS
      <3>1. CASE v = w
        BY <2>2, <2>4, <3>1 DEF HeldBy
      <3>2. CASE v # w
        BY <2>3, <3>2 DEF HeldBy
      <3> QED
        BY <3>1, <3>2
    <2> SUFFICES ASSUME NEW i \in added
                 PROVE  Queued(i)' \/ i \in sent' \/ \E v \in Workers : HeldBy(v, i)'
      BY <2>3 DEF NothingLost
    <2>8. CASE Queued(i) \/ i \in sent
      BY <2>3, <2>5, <2>6, <2>8 DEF BulkTypeOK
    <2>9. ASSUME NEW v \in Workers, HeldBy(v, i)
          PROVE  HeldBy(v, i)'
      BY <2>7, <2>9 DEF BulkTypeOK
    <2> QED
      BY <2>8, <2>9 DEF NothingLost
  <1>3. ASSUME NEW w \in Workers, FinishPublish(w)
        PROVE  NothingLost'
    <2> DEFINE batch == retrievedItems[w]
    <2>1. /\ \A v \in Workers \ {w} : retrievedItems'[v] = retrievedItems[v]
          /\ queue' = queue /\ added' = added /\ sent' = sent \cup Range(batch)
      BY <1>3 DEF BulkTypeOK, FinishPublish
    <2>2. \A h \in Items : HeldBy(w, h) => h \in Range(batch)
      BY RangeFacts DEF BulkTypeOK, HeldBy
    <2>3. \A h \in Items, v \in Workers \ {w} : HeldBy(v, h) => HeldBy(v, h)'
      BY <2>1 DEF HeldBy
    <2>4. \A h \in Items : Queued(h) => Queued(h)'
      BY <2>1 DEF Queued
    <2> SUFFICES ASSUME NEW i \in added
                 PROVE  Queued(i)' \/ i \in sent' \/ \E v \in Workers : HeldBy(v, i)'
      BY <2>1 DEF NothingLost
    <2>5. i \in Items
      BY DEF BulkTypeOK
    <2>6. CASE Queued(i) \/ i \in sent
      BY <2>1, <2>4, <2>5, <2>6
    <2>7. ASSUME NEW v \in Workers, HeldBy(v, i)
          PROVE  i \in sent' \/ HeldBy(v, i)'
      BY <2>1, <2>2, <2>3, <2>5, <2>7
    <2> QED
      BY <2>6, <2>7 DEF NothingLost
  <1>4. Unmoved => NothingLost'
    BY DEF Unmoved, NothingLost, Queued, HeldBy
  <1>5. ASSUME NEW w \in Workers,
               Flush(w) \/ ServerStep(w) \/ ReceiveReply(w) \/ NotifyItem(w) \/ Failure(w)
        PROVE  Unmoved
    BY <1>5, StepUnmoved
  <1>6. UNCHANGED bulkVars => Unmoved
    BY DEF bulkVars, Unmoved
  <1> QED
    BY <1>1, <1>2, <1>3, <1>4, <1>5, <1>6 DEF Next, WorkerStep

\* An item that was handed in never disappears without a trace.
THEOREM Conservation == Spec => []NothingLost
  <1>1. Init => BulkTypeOK /\ NothingLost
    BY InitType, InitLost
  <1>2. BulkTypeOK /\ NothingLost /\ [Next]_bulkVars => (BulkTypeOK /\ NothingLost)'
    BY NextType, NextLost
  <1> QED
    BY <1>1, <1>2, PTL DEF Spec

-----------------------------------------------------------------------------
(* Deliveries.  DeliveredAtMostOnce is not inductive by itself: it has to be *)
(* known that an item which may still be sent has not been delivered yet.    *)

DeliveryStage ==
    \A i \in Items :
       /\ i \notin added \/ Queued(i) => deliveries[i] = 0
       /\ i \in sent => deliveries[i] = 1
       /\ \A w \in Workers : HeldBy(w, i) =>
             /\ worker[w] \in {"polling", "putting"} => deliveries[i] = 0
             /\ worker[w] \in {"answered", "notifying"} => deliveries[i] = 1
             /\ deliveries[i] =< 1

BulkInv == BulkTypeOK /\ NothingTwice /\ NothingLost /\ DeliveryStage

LEMMA InitStage == Init => DeliveryStage
  <1> SUFFICES ASSUME Init
               PROVE  DeliveryStage
    OBVIOUS
  <1>1. Len(<<>>) = 0
    BY EmptySeq
  <1> QED
    BY <1>1 DEF Init, DeliveryStage, HeldBy, Queued

\* A step that delivers nothing keeps the stages right when no item moves and no
\* worker changes to a stage that says more about its batch.
LEMMA QuietStage ==
    ASSUME DeliveryStage, Unmoved, deliveries' = deliveries,
           \A v \in Workers :
              \/ worker'[v] = worker[v]
              \/ worker'[v] = "putting" /\ worker[v] = "polling"
              \/ worker'[v] = "notifying" /\ worker[v] = "answered"
              \/ worker'[v] \in Stopped
    PROVE  DeliveryStage'
  <1>1. \A i \in Items : Queued(i)' <=> Queued(i)
    BY DEF Unmoved, Queued
  <1>2. \A i \in Items, v \in Workers : HeldBy(v, i)' <=> HeldBy(v, i)
    BY DEF Unmoved, HeldBy
  <1> QED
    BY <1>1, <1>2 DEF Unmoved, DeliveryStage, Stopped

LEMMA AddStage ==
    ASSUME BulkTypeOK, DeliveryStage, NEW i \in Items, AddMessage(i)
    PROVE  DeliveryStage'
  <1>1. \A h \in Items : Queued(h)' => Queued(h) \/ h = i
    <2>1. /\ Len(queue) \in Nat
          /\ Len(queue') = Len(queue) + 1
          /\ \A k \in 1 .. Len(queue) : queue'[k] = queue[k]
          /\ queue'[Len(queue) + 1] = i
      BY AppendFacts, LenProperties DEF BulkTypeOK, AddMessage
    <2> QED
      BY <2>1 DEF Queued
  <1>2. \A h \in Items, w \in Workers : HeldBy(w, h)' <=> HeldBy(w, h)
    BY DEF AddMessage, HeldBy
  <1> QED
    BY <1>1, <1>2 DEF AddMessage, DeliveryStage

LEMMA TakeStage ==
    ASSUME BulkTypeOK, NothingTwice, DeliveryStage, NEW w \in Workers, Take(w)
    PROVE  DeliveryStage'
  <1> DEFINE batch == retrievedItems[w]
  <1>1. PICK item \in Items : item = Head(queue)
    BY RemoveFacts DEF BulkTypeOK, Take
  <1>2. /\ item = queue[1]
        /\ Len(queue) \in Nat \ {0}
        /\ Len(queue') = Len(queue) - 1
        /\ \A k \in 1 .. Len(queue) - 1 : queue'[k] = queue[k + 1]
    BY <1>1, RemoveFacts DEF BulkTypeOK, Take
  <1>3. batch \in Seq(Items) /\ Len(batch) \in Nat
    BY LenProperties DEF BulkTypeOK
  <1>4. /\ retrievedItems'[w] = Append(batch, item)
        /\ \A v \in Workers \ {w} : retrievedItems'[v] = retrievedItems[v]
        /\ added' = added /\ sent' = sent /\ deliveries' = deliveries
    BY <1>1 DEF BulkTypeOK, Take, historyVars
  <1>5. /\ Len(retrievedItems'[w]) = Len(batch) + 1
        /\ \A k \in 1 .. Len(batch) : retrievedItems'[w][k] = batch[k]
        /\ retrievedItems'[w][Len(batch) + 1] = item
    BY <1>3, <1>4, AppendFacts
  <1>6. Queued(item) /\ item \in added \ sent /\ deliveries[item] = 0
    <2>1. Queued(item)
      BY <1>2 DEF Queued
    <2> QED
      BY <2>1 DEF NothingTwice, OnePlace, DeliveryStage
  <1>7. \A h \in Items : Queued(h)' => Queued(h)
    BY <1>2 DEF Queued
  <1>8. \A h \in Items : HeldBy(w, h)' => HeldBy(w, h) \/ h = item
    BY <1>3, <1>5 DEF HeldBy
  <1>9. \A h \in Items, v \in Workers \ {w} : HeldBy(v, h)' <=> HeldBy(v, h)
    BY <1>4 DEF HeldBy
  <1>10. /\ worker[w] = "polling" /\ worker'[w] \in {"polling", "putting"}
         /\ \A v \in Workers \ {w} : worker'[v] = worker[v]
    BY DEF BulkTypeOK, Take
  <1>11. ASSUME NEW h \in Items, NEW v \in Workers, HeldBy(v, h)'
         PROVE  /\ worker'[v] \in {"polling", "putting"} => deliveries[h] = 0
                /\ worker'[v] \in {"answered", "notifying"} => deliveries[h] = 1
                /\ deliveries[h] =< 1
    <2>1. CASE v = w
      BY <1>6, <1>8, <1>10, <1>11, <2>1 DEF DeliveryStage
    <2>2. CASE v # w
      BY <1>9, <1>10, <1>11, <2>2 DEF DeliveryStage
    <2> QED
      BY <2>1, <2>2
  <1> QED
    BY <1>4, <1>7, <1>11 DEF DeliveryStage

\* Only a batch none of whose items was delivered is put, and whoever else holds
\* or queues an item does not see it delivered by this step.
LEMMA HandleStage ==
    ASSUME BulkTypeOK, NothingTwice, DeliveryStage,
           NEW w \in Workers, NEW paused \in BOOLEAN, Handle(w, paused)
    PROVE  DeliveryStage'
  <1>1. \A i \in Items : i \in Range(retrievedItems[w]) <=> HeldBy(w, i)
    BY HeldIsRange
  <1>2. \A i \in Items : deliveries'[i] = IF HeldBy(w, i) THEN deliveries[i] + 1
                                                          ELSE deliveries[i]
    BY <1>1 DEF Handle
  <1>3. /\ worker[w] = "putting" /\ worker'[w] = "answered"
        /\ \A v \in Workers \ {w} : worker'[v] = worker[v]
        /\ Unmoved
    BY DEF Handle, BulkTypeOK, Unmoved
  <1>4. \A i \in Items : Queued(i)' <=> Queued(i)
    BY <1>3 DEF Unmoved, Queued
  <1>5. \A i \in Items, v \in Workers : HeldBy(v, i)' <=> HeldBy(v, i)
    BY <1>3 DEF Unmoved, HeldBy
  <1>6. \A i \in Items, v \in Workers : HeldBy(v, i) /\ HeldBy(w, i) => v = w
    BY DEF NothingTwice, HeldBy
  <1>7. \A i \in Items : HeldBy(w, i) => i \in added \ sent /\ ~Queued(i)
    BY DEF NothingTwice, OnePlace
  <1>8. \A i \in Items : HeldBy(w, i) => deliveries[i] = 0 /\ deliveries'[i] = 1
    <2>1. \A i \in Items : HeldBy(w, i) => deliveries[i] = 0
      BY <1>3 DEF DeliveryStage
    <2> QED
      BY <1>2, <2>1
  <1>9. \A i \in Items : ~HeldBy(w, i) => deliveries'[i] = deliveries[i]
    BY <1>2
  <1>10. ASSUME NEW i \in Items
         PROVE  /\ i \notin added' \/ Queued(i)' => deliveries'[i] = 0
                /\ i \in sent' => deliveries'[i] = 1
    BY <1>3, <1>4, <1>7, <1>9 DEF DeliveryStage, Unmoved
  <1>11. ASSUME NEW i \in Items, NEW v \in Workers, HeldBy(v, i)'
         PROVE  /\ worker'[v] \in {"polling", "putting"} => deliveries'[i] = 0
                /\ worker'[v] \in {"answered", "notifying"} => deliveries'[i] = 1
                /\ deliveries'[i] =< 1
    <2>1. CASE v = w
      BY <1>3, <1>5, <1>8, <1>11, <2>1
    <2>2. CASE v # w
      <3>1. ~HeldBy(w, i) /\ HeldBy(v, i)
        BY <1>5, <1>6, <1>11, <2>2
      <3> QED
        BY <1>3, <1>9, <2>2, <3>1 DEF DeliveryStage
    <2> QED
      BY <2>1, <2>2
  <1> QED
    BY <1>10, <1>11 DEF DeliveryStage

LEMMA FinishStage ==
    ASSUME BulkTypeOK, NothingTwice, DeliveryStage, NEW w \in Workers, FinishPublish(w)
    PROVE  DeliveryStage'
  <1> DEFINE batch == retrievedItems[w]
  <1>1. /\ retrievedItems'[w] = <<>> /\ worker[w] = "notifying"
        /\ \A v \in Workers \ {w} : /\ retrievedItems'[v] = retrievedItems[v]
                                    /\ worker'[v] = worker[v]
        /\ queue' = queue /\ added' = added /\ sent' = sent \cup Range(batch)
        /\ deliveries' = deliveries
    BY DEF BulkTypeOK, FinishPublish
  <1>2. Len(retrievedItems'[w]) = 0
    BY <1>1, EmptySeq
  <1>3. \A i \in Items : i \in Range(batch) <=> HeldBy(w, i)
    BY HeldIsRange
  <1>4. \A i \in Items : Queued(i)' <=> Queued(i)
    BY <1>1 DEF Queued
  <1>5. \A i \in Items, v \in Workers : HeldBy(v, i)' => v # w /\ HeldBy(v, i)
    BY <1>1, <1>2 DEF HeldBy
  <1>6. \A i \in Items : i \in sent' => deliveries[i] = 1
    BY <1>1, <1>3 DEF DeliveryStage
  <1> QED
    BY <1>1, <1>4, <1>5, <1>6 DEF DeliveryStage

\* The part of the batch that the failing handler worked through was delivered
\* for the first time, and nobody puts it again.
LEMMA HandlerFailsStage ==
    ASSUME BulkTypeOK, NothingTwice, DeliveryStage, NEW w \in Workers, HandlerFails(w)
    PROVE  DeliveryStage'
  <1>1. /\ worker[w] = "putting" /\ worker'[w] = "hung"
        /\ \A v \in Workers \ {w} : worker'[v] = worker[v]
        /\ Unmoved
    BY DEF HandlerFails, BulkTypeOK, Unmoved
  <1>2. PICK n \in 0 .. Len(retrievedItems[w]) - 1 :
           deliveries' = [i \in Items |->
                            IF \E k \in 1 .. n : retrievedItems[w][k] = i
                            THEN deliveries[i] + 1 ELSE deliveries[i]]
    BY DEF HandlerFails
  <1>3. Len(retrievedItems[w]) \in Nat
    BY LenProperties DEF BulkTypeOK
  <1>4. \A i \in Items : deliveries'[i] # deliveries[i]
                            => HeldBy(w, i) /\ deliveries'[i] = deliveries[i] + 1
    BY <1>2, <1>3 DEF HeldBy
  <1>5. \A i \in Items : Queued(i)' <=> Queued(i)
    BY <1>1 DEF Unmoved, Queued
  <1>6. \A i \in Items, v \in Workers : HeldBy(v, i)' <=> HeldBy(v, i)
    BY <1>1 DEF Unmoved, HeldBy
  <1>7. \A i \in Items, v \in Workers : HeldBy(v, i) /\ HeldBy(w, i) => v = w
    BY DEF NothingTwice, HeldBy
  <1>8. \A i \in Items : HeldBy(w, i) => i \in added \ sent /\ ~Queued(i)
    BY DEF NothingTwice, OnePlace
  <1>9. \A i \in Items : HeldBy(w, i) => deliveries'[i] =< 1
    <2>1. \A i \in Items : HeldBy(w, i) => deliveries[i] = 0
      BY <1>1 DEF DeliveryStage
    <2> QED
      BY <1>4, <2>1
  <1>10. ASSUME NEW i \in Items
         PROVE  /\ i \notin added' \/ Queued(i)' => deliveries'[i] = 0
                /\ i \in sent' => deliveries'[i] = 1
    BY <1>1, <1>4, <1>5, <1>8 DEF DeliveryStage, Unmoved
  <1>11. ASSUME NEW i \in Items, NEW v \in Workers, HeldBy(v, i)'
         PROVE  /\ worker'[v] \in {"polling", "putting"} => deliveries'[i] = 0
                /\ worker'[v] \in {"answered", "notifying"} => deliveries'[i] = 1
                /\ deliveries'[i] =< 1
    <2>1. CASE v = w
      BY <1>1, <1>6, <1>9, <1>11, <2>1
    <2>2. CASE v # w
      <3>1. ~HeldBy(w, i) /\ HeldBy(v, i)
        BY <1>6, <1>7, <1>11, <2>2
      <3> QED
        BY <1>1, <1>4, <2>2, <3>1 DEF DeliveryStage
    <2> QED
      BY <2>1, <2>2
  <1> QED
    BY <1>10, <1>11 DEF DeliveryStage

LEMMA NextStage ==
    BulkTypeOK /\ NothingTwice /\ DeliveryStage /\ [Next]_bulkVars => DeliveryStage'
  <1> SUFFICES ASSUME BulkTypeOK, NothingTwice, DeliveryStage, [Next]_bulkVars
               PROVE  DeliveryStage'
    OBVIOUS
  <1>1. ASSUME NEW w \in Workers, Flush(w) \/ ReceiveReply(w) \/ NotifyItem(w)
        PROVE  DeliveryStage'
    <2>1. Unmoved /\ deliveries' = deliveries
      BY <1>1 DEF Flush, ReceiveReply, NotifyItem, historyVars, Unmoved
    <2>2. \A v \in Workers :
             \/ worker'[v] = worker[v]
             \/ worker'[v] = "putting" /\ worker[v] = "polling"
             \/ worker'[v] = "notifying" /\ worker[v] = "answered"
      BY <1>1 DEF Flush, ReceiveReply, NotifyItem, BulkTypeOK
    <2> QED
      BY <2>1, <2>2, QuietStage
  <1>2. ASSUME NEW w \in Workers, PutFails(w)
        PROVE  DeliveryStage'
    <2>1. Unmoved /\ deliveries' = deliveries
      BY <1>2 DEF PutFails, historyVars, Unmoved
    <2>2. \A v \in Workers : worker'[v] = worker[v] \/ worker'[v] \in Stopped
      BY <1>2 DEF PutFails, BulkTypeOK, Stopped
    <2> QED
      BY <2>1, <2>2, QuietStage
  <1>3. CASE UNCHANGED bulkVars
    BY <1>3, QuietStage DEF bulkVars, Unmoved
  <1> QED
    BY <1>1, <1>2, <1>3, AddStage, TakeStage, HandleStage, FinishStage, HandlerFailsStage
       DEF Next, WorkerStep, ServerStep, Failure

LEMMA Invariance == Spec => []BulkInv
  <1>1. Init => BulkInv
    BY InitType, InitTwice, InitLost, InitStage DEF BulkInv
  <1>2. BulkInv /\ [Next]_bulkVars => BulkInv'
    BY NextType, NextTwice, NextLost, NextStage DEF BulkInv
  <1> QED
    BY <1>1, <1>2, PTL DEF Spec

\* Mission Control gets no item twice, in every failure pattern: the item that a
\* worker may still put is one that was never delivered.
THEOREM AtMostOnce == Spec => []DeliveredAtMostOnce
  <1>1. BulkInv => DeliveredAtMostOnce
    BY DEF BulkInv, NothingLost, DeliveryStage, DeliveredAtMostOnce
  <1> QED
    BY <1>1, Invariance, PTL

-----------------------------------------------------------------------------
(* A failed PUT costs one batch. *)

LossInv == IsFiniteSet(Lost) /\ LossBounded

\* The batches of stopped workers are never touched again.
LEMMA LostOnlyByFailure ==
    ASSUME BulkTypeOK, [Next]_bulkVars, NEW i \in Lost'
    PROVE  \/ i \in Lost
           \/ \E w \in Workers : Failure(w) /\ i \in Range(retrievedItems[w])
  <1> USE DEF Lost, Stopped
  <1>1. PICK v \in Workers : worker'[v] \in Stopped /\ HeldBy(v, i)'
    OBVIOUS
  <1>2. i \in Items
    OBVIOUS
  <1>3. CASE worker[v] \in Stopped
    <2>1. retrievedItems'[v] = retrievedItems[v]
      BY <1>3 DEF BulkTypeOK, Next, WorkerStep, ServerStep, Failure, AddMessage, Take, Flush,
                  Handle, ReceiveReply, NotifyItem, FinishPublish, PutFails, HandlerFails,
                  bulkVars, historyVars
    <2> QED
      BY <1>1, <1>2, <1>3, <2>1 DEF HeldBy
  <1>4. CASE worker[v] \notin Stopped
    <2>1. Failure(v)
      <3>1. worker'[v] # worker[v]
        BY <1>1, <1>4
      <3>2. ASSUME NEW w \in Workers, WorkerStep(w) \/ ServerStep(w)
            PROVE  worker'[v] \notin Stopped
        BY <1>4, <3>2 DEF BulkTypeOK, WorkerStep, ServerStep, Take, Flush, Handle,
                          ReceiveReply, NotifyItem, FinishPublish
      <3>3. ASSUME NEW w \in Workers, Failure(w)
            PROVE  w = v
        BY <3>1, <3>3 DEF BulkTypeOK, Failure, PutFails, HandlerFails
      <3>4. ASSUME \/ \E h \in Items : AddMessage(h)
                   \/ UNCHANGED bulkVars
            PROVE  worker'[v] = worker[v]
        BY <3>4 DEF AddMessage, bulkVars
      <3> QED
        BY <1>1, <3>1, <3>2, <3>3, <3>4 DEF Next
    <2>2. retrievedItems' = retrievedItems
      BY <2>1 DEF Failure, PutFails, HandlerFails
    <2>3. HeldBy(v, i)
      BY <1>1, <2>2 DEF HeldBy
    <2> QED
      BY <1>2, <2>1, <2>3, HeldIsRange
  <1> QED
    BY <1>3, <1>4

LEMMA NextLoss ==
    BulkTypeOK /\ BulkTypeOK' /\ LossInv /\ [Next]_bulkVars => LossInv'
  <1> SUFFICES ASSUME BulkTypeOK, BulkTypeOK', LossInv, [Next]_bulkVars
               PROVE  LossInv'
    OBVIOUS
  <1>1. /\ MaxDispatchSize \in Nat /\ failures \in Nat /\ failures' \in Nat
        /\ Cardinality(Lost) \in Nat
    BY BulkDataAssumption, FS_CardinalityType DEF BulkDataAssumption, BulkTypeOK, LossInv
  <1>2. CASE \E w \in Workers : Failure(w)
    <2>1. PICK w \in Workers : Failure(w)
      BY <1>2
    <2> DEFINE batch == Range(retrievedItems[w])
    <2>2. failures' = failures + 1
      BY <2>1 DEF Failure, PutFails, HandlerFails
    <2>3. /\ IsFiniteSet(batch)
          /\ Cardinality(batch) \in Nat
          /\ Cardinality(batch) =< MaxDispatchSize
      BY <1>1, RangeFacts, LenProperties, FS_CardinalityType DEF BulkTypeOK
    <2>4. Lost' \subseteq Lost \cup batch
      <3>1. \A v \in Workers : Failure(v) => v = w
        BY <2>1 DEF Failure, PutFails, HandlerFails, BulkTypeOK
      <3> QED
        BY <3>1, LostOnlyByFailure
    <2>5. /\ IsFiniteSet(Lost \cup batch)
          /\ Cardinality(Lost \cup batch) \in Nat
          /\ Cardinality(Lost \cup batch) =< Cardinality(Lost) + Cardinality(batch)
      <3>1. IsFiniteSet(Lost \cap batch)
        BY <2>3, FS_Subset
      <3>2. Cardinality(Lost \cap batch) \in Nat
        BY <3>1, FS_CardinalityType
      <3>3. /\ IsFiniteSet(Lost \cup batch)
            /\ Cardinality(Lost \cup batch)
                 = Cardinality(Lost) + Cardinality(batch) - Cardinality(Lost \cap batch)
        BY <2>3, FS_Union DEF LossInv
      <3>4. Cardinality(Lost \cup batch) \in Nat
        BY <3>3, FS_CardinalityType
      <3> QED
        BY <1>1, <2>3, <3>2, <3>3, <3>4
    <2>6. IsFiniteSet(Lost') /\ Cardinality(Lost') \in Nat
          /\ Cardinality(Lost') =< Cardinality(Lost \cup batch)
      <3>1. IsFiniteSet(Lost') /\ Cardinality(Lost') =< Cardinality(Lost \cup batch)
        BY <2>4, <2>5, FS_Subset
      <3> QED
        BY <3>1, FS_CardinalityType
    <2>7. Cardinality(Lost) =< MaxDispatchSize * failures
      BY DEF LossInv, LossBounded
    <2>8. MaxDispatchSize * failures' = MaxDispatchSize * failures + MaxDispatchSize
      BY <1>1, <2>2
    <2>9. MaxDispatchSize * failures \in Nat
      BY <1>1
    <2>10. Cardinality(Lost') =< MaxDispatchSize * failures'
      <3>1. Cardinality(Lost') =< Cardinality(Lost) + Cardinality(batch)
        BY <1>1, <2>3, <2>5, <2>6
      <3>2. Cardinality(Lost') =< MaxDispatchSize * failures + MaxDispatchSize
        BY <1>1, <2>3, <2>6, <2>7, <2>9, <3>1
      <3> QED
        BY <2>8, <3>2
    <2> QED
      BY <2>6, <2>10 DEF LossInv, LossBounded
  <1>3. CASE ~\E w \in Workers : Failure(w)
    <2>1. Lost' \subseteq Lost
      BY <1>3, LostOnlyByFailure
    <2>2. failures' = failures
      BY <1>3 DEF Next, WorkerStep, ServerStep, AddMessage, Take, Flush, Handle, ReceiveReply,
                  NotifyItem, FinishPublish, bulkVars
    <2>3. IsFiniteSet(Lost') /\ Cardinality(Lost') =< Cardinality(Lost)
      BY <2>1, FS_Subset DEF LossInv
    <2>4. Cardinality(Lost') \in Nat
      BY <2>3, FS_CardinalityType
    <2>5. MaxDispatchSize * failures \in Nat
      BY <1>1
    <2> QED
      BY <1>1, <2>2, <2>3, <2>4, <2>5 DEF LossInv, LossBounded
  <1> QED
    BY <1>2, <1>3

\* Every failed PUT costs at most the one batch that was in it.
THEOREM LossIsBounded == Spec => []LossBounded
  <1>1. Init => LossInv
    <2> SUFFICES ASSUME Init
                 PROVE  LossInv
      OBVIOUS
    <2>1. Lost = {} /\ failures = 0
      BY DEF Init, Lost, Stopped
    <2>2. IsFiniteSet(Lost) /\ Cardinality(Lost) = 0
      BY <2>1, FS_EmptySet
    <2>3. MaxDispatchSize * failures = 0
      BY <2>1, BulkDataAssumption DEF BulkDataAssumption
    <2> QED
      BY <2>2, <2>3 DEF LossInv, LossBounded
  <1>2. LossInv => LossBounded
    BY DEF LossInv
  <1> QED
    BY <1>1, <1>2, InitType, NextType, NextLoss, PTL DEF Spec

-----------------------------------------------------------------------------
(* The dispatcher implements Delivery.  Since an item has one place, its     *)
(* place and the state of the worker there say what its status is.           *)

StatusRules ==
    \A i \in Items :
       /\ i \notin added => ItemStatus(i) = "new"
       /\ i \in sent => ItemStatus(i) = "confirmed"
       /\ i \in added \ sent /\ (\A w \in Workers : ~HeldBy(w, i))
             => ItemStatus(i) = "pending"
       /\ \A w \in Workers : HeldBy(w, i) =>
             /\ worker[w] \in {"polling", "putting"} => ItemStatus(i) = "pending"
             /\ worker[w] = "answered" => ItemStatus(i) = "delivered"
             /\ worker[w] = "notifying" =>
                   ItemStatus(i) = IF Walked(w, i) THEN "confirmed" ELSE "delivered"
             /\ worker[w] \in Stopped => ItemStatus(i) = "lost"

LEMMA Statuses == BulkInv => StatusRules
  <1> SUFFICES ASSUME BulkTypeOK, NothingTwice, NothingLost, DeliveryStage, NEW i \in Items
               PROVE  StatusRules!(i)
    BY DEF StatusRules, BulkInv
  <1>1. \A w \in Workers : worker[w] = "notifying" /\ Walked(w, i) => HeldBy(w, i)
    <2> SUFFICES ASSUME NEW w \in Workers, worker[w] = "notifying", Walked(w, i)
                 PROVE  HeldBy(w, i)
      OBVIOUS
    <2>1. /\ cursor[w] \in Nat /\ Len(retrievedItems[w]) \in Nat
          /\ cursor[w] =< Len(retrievedItems[w])
      BY LenProperties DEF BulkTypeOK
    <2> QED
      BY <2>1 DEF Walked, HeldBy
  <1>2. \A w \in Workers : HeldBy(w, i) => i \in added \ sent
    BY DEF NothingTwice, OnePlace
  <1>3. \A v, w \in Workers : HeldBy(v, i) /\ HeldBy(w, i) => v = w
    BY DEF NothingTwice, HeldBy
  <1>4. i \in sent => i \in added
    BY DEF NothingTwice, OnePlace
  <1>5. i \notin added => ItemStatus(i) = "new"
    BY DEF ItemStatus
  <1>6. i \in sent => ItemStatus(i) = "confirmed"
    BY <1>4 DEF ItemStatus
  <1>7. i \in added \ sent /\ (\A w \in Workers : ~HeldBy(w, i)) => ItemStatus(i) = "pending"
    <2> SUFFICES ASSUME i \in added \ sent, \A w \in Workers : ~HeldBy(w, i)
                 PROVE  ItemStatus(i) = "pending"
      OBVIOUS
    <2>1. deliveries[i] = 0
      BY DEF NothingLost, DeliveryStage
    <2> QED
      BY <1>1, <2>1 DEF ItemStatus, Notified, Lost, Delivered
  <1>8. ASSUME NEW w \in Workers, HeldBy(w, i)
        PROVE  /\ worker[w] \in {"polling", "putting"} => ItemStatus(i) = "pending"
               /\ worker[w] = "answered" => ItemStatus(i) = "delivered"
               /\ worker[w] = "notifying" =>
                     ItemStatus(i) = IF Walked(w, i) THEN "confirmed" ELSE "delivered"
               /\ worker[w] \in Stopped => ItemStatus(i) = "lost"
    <2>1. i \in added /\ i \notin sent
      BY <1>2, <1>8
    <2>2. Notified(i) <=> worker[w] = "notifying" /\ Walked(w, i)
      BY <1>1, <1>3, <1>8 DEF Notified
    <2>3. i \in Lost <=> worker[w] \in Stopped
      BY <1>3, <1>8 DEF Lost
    <2>4. /\ worker[w] \in {"polling", "putting"} => ~Delivered(i)
          /\ worker[w] \in {"answered", "notifying"} => Delivered(i)
      BY <1>8 DEF Delivered, DeliveryStage
    <2> QED
      BY <2>1, <2>2, <2>3, <2>4 DEF ItemStatus, Stopped
  <1> QED
    BY <1>5, <1>6, <1>7, <1>8

\* Two states, each with its statuses.
Step == /\ BulkTypeOK /\ NothingTwice /\ StatusRules
        /\ BulkTypeOK' /\ NothingTwice' /\ StatusRules'

\* An item whose holder does not move, or that nobody holds before and after,
\* keeps its status.
LEMMA KeepsStatus ==
    ASSUME Step, NEW i \in Items,
           i \in added' <=> i \in added,
           i \in sent' <=> i \in sent,
           \A w \in Workers :
              \/ ~HeldBy(w, i) /\ ~HeldBy(w, i)'
              \/ /\ worker'[w] = worker[w] /\ cursor'[w] = cursor[w]
                 /\ retrievedItems'[w] = retrievedItems[w]
    PROVE  ItemStatus(i)' = ItemStatus(i)
  <1>1. \A w \in Workers : HeldBy(w, i)' <=> HeldBy(w, i)
    BY DEF HeldBy
  <1>2. CASE i \notin added \/ i \in sent
    BY <1>2 DEF Step, StatusRules
  <1>3. CASE i \in added \ sent /\ \A w \in Workers : ~HeldBy(w, i)
    BY <1>1, <1>3 DEF Step, StatusRules
  <1>4. ASSUME NEW w \in Workers, HeldBy(w, i)
        PROVE  ItemStatus(i)' = ItemStatus(i)
    <2>1. /\ worker'[w] = worker[w] /\ HeldBy(w, i)'
          /\ Walked(w, i)' <=> Walked(w, i)
      BY <1>1, <1>4 DEF Walked
    <2>2. worker[w] \in {"polling", "putting", "answered", "notifying"} \cup Stopped
      BY DEF Step, BulkTypeOK, WorkerState, Stopped
    <2> QED
      BY <1>4, <2>1, <2>2 DEF Step, StatusRules
  <1> QED
    BY <1>2, <1>3, <1>4

\* A step that keeps every status is a stuttering step of Delivery.
Stutter == \A i \in Items : ItemStatus(i)' = ItemStatus(i)

\* The items of S, all of the same status from, are now all in the status to, and
\* the other items keep their status.
Moves(S, from, to) ==
    /\ \A i \in S : ItemStatus(i) = from /\ ItemStatus(i)' = to
    /\ \A i \in Items \ S : ItemStatus(i)' = ItemStatus(i)

LEMMA AddMoves ==
    ASSUME Step, NEW i \in Items, AddMessage(i)
    PROVE  Moves({i}, "new", "pending")
  <1>1. i \notin added /\ i \in added' /\ i \notin sent /\ sent' = sent
    BY DEF AddMessage, Step, NothingTwice, OnePlace
  <1>2. \A h \in Items, w \in Workers : HeldBy(w, h)' <=> HeldBy(w, h)
    BY DEF AddMessage, HeldBy
  <1>3. \A w \in Workers : ~HeldBy(w, i)
    BY <1>1 DEF Step, NothingTwice, OnePlace
  <1>4. ItemStatus(i) = "new" /\ ItemStatus(i)' = "pending"
    BY <1>1, <1>2, <1>3 DEF Step, StatusRules
  <1>5. ASSUME NEW h \in Items \ {i}
        PROVE  ItemStatus(h)' = ItemStatus(h)
    <2>1. /\ h \in added' <=> h \in added
          /\ worker' = worker /\ cursor' = cursor /\ retrievedItems' = retrievedItems
      BY <1>5 DEF AddMessage
    <2> QED
      BY <1>1, <2>1, KeepsStatus
  <1> QED
    BY <1>4, <1>5 DEF Moves

LEMMA TakeStutters ==
    ASSUME Step, NEW w \in Workers, Take(w)
    PROVE  Stutter
  <1> DEFINE batch == retrievedItems[w]
  <1>1. /\ Head(queue) \in Items /\ Head(queue) = queue[1] /\ Len(queue) \in Nat \ {0}
    BY RemoveFacts DEF Step, BulkTypeOK, Take
  <1>2. PICK item \in Items : item = Head(queue)
    BY <1>1
  <1>3. batch \in Seq(Items) /\ Len(batch) \in Nat
    BY LenProperties DEF Step, BulkTypeOK
  <1>4. /\ retrievedItems'[w] = Append(batch, item)
        /\ \A v \in Workers \ {w} : /\ retrievedItems'[v] = retrievedItems[v]
                                    /\ worker'[v] = worker[v] /\ cursor'[v] = cursor[v]
        /\ added' = added /\ sent' = sent
        /\ worker[w] = "polling" /\ worker'[w] \in {"polling", "putting"}
    BY <1>2 DEF Step, BulkTypeOK, Take, historyVars
  <1>5. /\ Len(retrievedItems'[w]) = Len(batch) + 1
        /\ \A k \in 1 .. Len(batch) : retrievedItems'[w][k] = batch[k]
        /\ retrievedItems'[w][Len(batch) + 1] = item
    BY <1>3, <1>4, AppendFacts
  <1>6. \A i \in Items : HeldBy(w, i)' <=> HeldBy(w, i) \/ i = item
    <2> SUFFICES ASSUME NEW i \in Items
                 PROVE  HeldBy(w, i)' <=> HeldBy(w, i) \/ i = item
      OBVIOUS
    <2>1. 1 .. Len(retrievedItems'[w]) = (1 .. Len(batch)) \cup {Len(batch) + 1}
      BY <1>3, <1>5
    <2> QED
      BY <1>5, <2>1 DEF HeldBy
  <1>7. ItemStatus(item) = "pending" /\ ItemStatus(item)' = "pending"
    <2>1. Queued(item)
      BY <1>1, <1>2 DEF Queued
    <2>2. item \in added \ sent /\ \A v \in Workers : ~HeldBy(v, item)
      BY <2>1 DEF Step, NothingTwice, OnePlace
    <2> QED
      BY <1>4, <1>6, <2>2 DEF Step, StatusRules
  <1>8. \A i \in Items : HeldBy(w, i) => ItemStatus(i) = "pending" /\ ItemStatus(i)' = "pending"
    BY <1>4, <1>6 DEF Step, StatusRules
  <1>9. \A i \in Items : i # item /\ ~HeldBy(w, i) => ItemStatus(i)' = ItemStatus(i)
    <2> SUFFICES ASSUME NEW i \in Items, i # item, ~HeldBy(w, i)
                 PROVE  ItemStatus(i)' = ItemStatus(i)
      OBVIOUS
    <2>1. ~HeldBy(w, i)'
      BY <1>6
    <2> QED
      BY <1>4, <2>1, KeepsStatus
  <1> QED
    BY <1>7, <1>8, <1>9 DEF Stutter

\* In the remaining steps one worker goes on to another stage with the batch it
\* has, and the items of the others keep their status.
LEMMA OthersKeep ==
    ASSUME Step, Unmoved, NEW w \in Workers,
           \A v \in Workers \ {w} : worker'[v] = worker[v] /\ cursor'[v] = cursor[v]
    PROVE  /\ \A i \in Items : HeldBy(w, i)' <=> HeldBy(w, i)
           /\ \A i \in Items \ Range(retrievedItems[w]) : ItemStatus(i)' = ItemStatus(i)
  <1>1. \A i \in Items, v \in Workers : HeldBy(v, i)' <=> HeldBy(v, i)
    BY DEF Unmoved, HeldBy
  <1>2. ASSUME NEW i \in Items \ Range(retrievedItems[w])
        PROVE  ItemStatus(i)' = ItemStatus(i)
    <2>1. ~HeldBy(w, i)
      BY <1>2, HeldIsRange DEF Step
    <2>2. \A v \in Workers \ {w} :
             /\ worker'[v] = worker[v] /\ cursor'[v] = cursor[v]
             /\ retrievedItems'[v] = retrievedItems[v]
      BY DEF Unmoved
    <2> QED
      BY <1>1, <2>1, <2>2, KeepsStatus DEF Unmoved
  <1> QED
    BY <1>1, <1>2

LEMMA FlushStutters ==
    ASSUME Step, NEW w \in Workers, Flush(w)
    PROVE  Stutter
  <1>1. /\ Unmoved
        /\ worker[w] = "polling" /\ worker'[w] = "putting"
        /\ \A v \in Workers \ {w} : worker'[v] = worker[v] /\ cursor'[v] = cursor[v]
    BY DEF Step, BulkTypeOK, Flush, historyVars, Unmoved
  <1>2. \A i \in Items : HeldBy(w, i) => ItemStatus(i)' = ItemStatus(i)
    BY <1>1, OthersKeep DEF Step, StatusRules
  <1> QED
    BY <1>1, <1>2, OthersKeep, HeldIsRange DEF Stutter, Step

LEMMA HandleMoves ==
    ASSUME Step, NEW w \in Workers, ServerStep(w)
    PROVE  Moves(Range(retrievedItems[w]), "pending", "delivered")
  <1>1. /\ Unmoved
        /\ worker[w] = "putting" /\ worker'[w] = "answered"
        /\ \A v \in Workers \ {w} : worker'[v] = worker[v] /\ cursor'[v] = cursor[v]
    BY DEF Step, BulkTypeOK, ServerStep, Handle, Unmoved
  <1>2. \A i \in Items : HeldBy(w, i) => ItemStatus(i) = "pending"
                                         /\ ItemStatus(i)' = "delivered"
    BY <1>1, OthersKeep DEF Step, StatusRules
  <1>3. Range(retrievedItems[w]) \subseteq Items
    BY RangeFacts DEF Step, BulkTypeOK
  <1> QED
    BY <1>1, <1>2, <1>3, OthersKeep, HeldIsRange DEF Moves, Step

LEMMA ReplyStutters ==
    ASSUME Step, NEW w \in Workers, ReceiveReply(w)
    PROVE  Stutter
  <1>1. /\ Unmoved
        /\ worker[w] = "answered" /\ worker'[w] = "notifying" /\ cursor'[w] = 0
        /\ \A v \in Workers \ {w} : worker'[v] = worker[v] /\ cursor'[v] = cursor[v]
    BY DEF Step, BulkTypeOK, ReceiveReply, historyVars, Unmoved
  <1>2. \A i \in Items : ~Walked(w, i)'
    BY <1>1 DEF Walked
  <1>3. \A i \in Items : HeldBy(w, i) => ItemStatus(i)' = ItemStatus(i)
    BY <1>1, <1>2, OthersKeep DEF Step, StatusRules
  <1> QED
    BY <1>1, <1>3, OthersKeep, HeldIsRange DEF Stutter, Step

LEMMA FailureMoves ==
    ASSUME Step, NEW w \in Workers, Failure(w)
    PROVE  \E from \in {"pending", "delivered"} :
              Moves(Range(retrievedItems[w]), from, "lost")
  <1>1. /\ Unmoved
        /\ worker[w] \in {"putting", "answered"} /\ worker'[w] \in Stopped
        /\ \A v \in Workers \ {w} : worker'[v] = worker[v] /\ cursor'[v] = cursor[v]
    BY DEF Step, BulkTypeOK, Failure, PutFails, HandlerFails, historyVars, Unmoved, Stopped
  <1>2. \A i \in Items : HeldBy(w, i) =>
           /\ ItemStatus(i)' = "lost"
           /\ worker[w] = "putting" => ItemStatus(i) = "pending"
           /\ worker[w] = "answered" => ItemStatus(i) = "delivered"
    BY <1>1, OthersKeep DEF Step, StatusRules
  <1>3. Range(retrievedItems[w]) \subseteq Items
    BY RangeFacts DEF Step, BulkTypeOK
  <1> QED
    BY <1>1, <1>2, <1>3, OthersKeep, HeldIsRange DEF Moves, Step

LEMMA NotifyMoves ==
    ASSUME Step, NEW w \in Workers, NotifyItem(w)
    PROVE  /\ retrievedItems[w][cursor[w] + 1] \in Items
           /\ Moves({retrievedItems[w][cursor[w] + 1]}, "delivered", "confirmed")
  <1> DEFINE batch == retrievedItems[w]
             item  == batch[cursor[w] + 1]
  <1>1. /\ Unmoved
        /\ worker' = worker /\ worker[w] = "notifying"
        /\ cursor'[w] = cursor[w] + 1
        /\ \A v \in Workers \ {w} : worker'[v] = worker[v] /\ cursor'[v] = cursor[v]
    BY DEF Step, BulkTypeOK, NotifyItem, historyVars, Unmoved
  <1>2. /\ cursor[w] \in Nat /\ Len(batch) \in Nat /\ cursor[w] < Len(batch)
        /\ batch \in Seq(Items)
        /\ cursor[w] + 1 \in 1 .. Len(batch)
    BY LenProperties DEF Step, BulkTypeOK, NotifyItem
  <1>3. PICK i \in Items : i = item
    BY <1>2, ElementOfSeq
  <1>4. HeldBy(w, i)
    BY <1>2, <1>3 DEF HeldBy
  <1>5. \A k \in 1 .. Len(batch) : batch[k] = i => k = cursor[w] + 1
    BY <1>2, <1>3 DEF Step, NothingTwice
  <1>6. ~Walked(w, i)
    BY <1>2, <1>5 DEF Walked
  <1>7. retrievedItems' = retrievedItems
    BY <1>1 DEF Unmoved
  <1>8. Walked(w, i)'
    BY <1>1, <1>2, <1>3, <1>7 DEF Walked
  <1>9. \A h \in Items : h # i => (Walked(w, h)' <=> Walked(w, h))
    BY <1>1, <1>2, <1>3, <1>7 DEF Walked
  <1>10. ItemStatus(i) = "delivered" /\ ItemStatus(i)' = "confirmed"
    BY <1>1, <1>4, <1>6, <1>8, OthersKeep DEF Step, StatusRules
  <1>11. \A h \in Items : h # i /\ HeldBy(w, h) => ItemStatus(h)' = ItemStatus(h)
    BY <1>1, <1>9, OthersKeep DEF Step, StatusRules
  <1>12. \A h \in Items : ~HeldBy(w, h) => ItemStatus(h)' = ItemStatus(h)
    BY <1>1, OthersKeep, HeldIsRange DEF Step
  <1> QED
    BY <1>3, <1>10, <1>11, <1>12 DEF Moves

LEMMA FinishStutters ==
    ASSUME Step, NEW w \in Workers, FinishPublish(w)
    PROVE  Stutter
  <1> DEFINE batch == retrievedItems[w]
  <1>1. /\ retrievedItems'[w] = <<>> /\ worker[w] = "notifying"
        /\ \A v \in Workers \ {w} : /\ retrievedItems'[v] = retrievedItems[v]
                                    /\ worker'[v] = worker[v] /\ cursor'[v] = cursor[v]
        /\ added' = added /\ sent' = sent \cup Range(batch)
        /\ cursor[w] = Len(batch)
    BY DEF Step, BulkTypeOK, FinishPublish
  <1>2. \A i \in Items : i \in Range(batch) <=> HeldBy(w, i)
    BY HeldIsRange DEF Step
  <1>3. \A i \in Items : ~HeldBy(w, i)'
    BY <1>1, EmptySeq DEF HeldBy
  <1>4. \A i \in Items : HeldBy(w, i) => Walked(w, i)
    BY <1>1 DEF HeldBy, Walked
  <1>5. \A i \in Items : HeldBy(w, i) => ItemStatus(i) = "confirmed"
                                         /\ ItemStatus(i)' = "confirmed"
    BY <1>1, <1>2, <1>4 DEF Step, StatusRules
  <1>6. ASSUME NEW i \in Items, ~HeldBy(w, i)
        PROVE  ItemStatus(i)' = ItemStatus(i)
    <2>1. i \in sent' <=> i \in sent
      BY <1>1, <1>2, <1>6
    <2> QED
      BY <1>1, <1>3, <1>6, <2>1, KeepsStatus
  <1> QED
    BY <1>5, <1>6 DEF Stutter

-----------------------------------------------------------------------------
(* From the statuses to the actions of Delivery. *)

statuses == [i \in Items |-> ItemStatus(i)]

LEMMA StutterMaps == Stutter => statuses' = statuses
  BY DEF Stutter, statuses

LEMMA MoveMaps ==
    ASSUME NEW S \in SUBSET Items, NEW from, NEW to, NEW stages, from \in stages,
           Moves(S, from, to)
    PROVE  D!Move(S, stages, to)
  BY DEF Moves, D!Move

\* What a worker holds once it puts its batch is a batch of Delivery.
LEMMA BatchMaps ==
    ASSUME BulkTypeOK, NEW w \in Workers, worker[w] # "polling"
    PROVE  Range(retrievedItems[w]) \in D!Batch
  <1> DEFINE batch == retrievedItems[w]
  <1>1. /\ batch \in Seq(Items) /\ batch # <<>> /\ Len(batch) =< MaxDispatchSize
        /\ Len(batch) \in Nat \ {0}
    BY EmptySeq DEF BulkTypeOK
  <1>2. /\ Range(batch) \in SUBSET Items /\ IsFiniteSet(Range(batch))
        /\ Cardinality(Range(batch)) =< Len(batch)
        /\ Range(batch) = {batch[k] : k \in 1 .. Len(batch)}
    BY <1>1, RangeFacts
  <1>3. batch[1] \in Range(batch)
    BY <1>1, <1>2
  <1>4. Cardinality(Range(batch)) \in Nat /\ MaxDispatchSize \in Nat
    BY <1>2, FS_CardinalityType, BulkDataAssumption DEF BulkDataAssumption
  <1>5. Cardinality(Range(batch)) =< MaxDispatchSize
    BY <1>1, <1>2, <1>4
  <1>6. D!Cardinality(Range(batch)) = Cardinality(Range(batch))
    BY DEF D!Cardinality, Cardinality, D!IsFiniteSet, IsFiniteSet
  <1> QED
    BY <1>2, <1>3, <1>5, <1>6 DEF D!Batch

LEMMA InitMaps == Init => D!Init
  <1> SUFFICES ASSUME Init
               PROVE  D!Init
    OBVIOUS
  <1>1. \A i \in Items : ItemStatus(i) = "new"
    BY DEF Init, ItemStatus
  <1> QED
    BY <1>1 DEF D!Init

LEMMA NextMaps == Step /\ [Next]_bulkVars => [D!Next]_statuses
  <1> SUFFICES ASSUME Step, [Next]_bulkVars
               PROVE  D!Next \/ statuses' = statuses
    OBVIOUS
  <1>1. ASSUME NEW i \in Items, AddMessage(i)
        PROVE  D!Next
    BY <1>1, AddMoves, MoveMaps DEF D!Next, D!Submit
  <1>2. ASSUME NEW w \in Workers, Take(w) \/ Flush(w) \/ ReceiveReply(w) \/ FinishPublish(w)
        PROVE  statuses' = statuses
    BY <1>2, TakeStutters, FlushStutters, ReplyStutters, FinishStutters, StutterMaps
  <1>3. ASSUME NEW w \in Workers, NotifyItem(w)
        PROVE  D!Next
    BY <1>3, NotifyMoves, MoveMaps DEF D!Next, D!Confirm
  <1>4. ASSUME NEW w \in Workers, ServerStep(w)
        PROVE  D!Next
    <2> DEFINE S == Range(retrievedItems[w])
    <2>1. S \in D!Batch
      BY <1>4, BatchMaps DEF Step, ServerStep, Handle
    <2>2. D!Deliver(S)
      BY <1>4, <2>1, HandleMoves, MoveMaps DEF D!Deliver, D!Batch
    <2> QED
      BY <2>1, <2>2 DEF D!Next
  <1>5. ASSUME NEW w \in Workers, Failure(w)
        PROVE  D!Next
    <2> DEFINE S == Range(retrievedItems[w])
    <2>1. S \in D!Batch
      BY <1>5, BatchMaps DEF Step, Failure, PutFails, HandlerFails
    <2>2. D!Lose(S)
      BY <1>5, <2>1, FailureMoves, MoveMaps DEF D!Lose, D!Batch
    <2> QED
      BY <2>1, <2>2 DEF D!Next
  <1>6. CASE UNCHANGED bulkVars
    <2>1. Stutter
      BY <1>6 DEF bulkVars, Stutter, ItemStatus, Notified, Walked, Lost, Delivered, HeldBy
    <2> QED
      BY <2>1, StutterMaps
  <1> QED
    BY <1>1, <1>2, <1>3, <1>4, <1>5, <1>6 DEF Next, WorkerStep

\* The threads, the queue, the PUTs and their failures amount to the promised
\* life cycle of the items.
THEOREM Implementation == Spec => ImplementsDelivery
  <1>1. BulkInv /\ BulkInv' /\ [Next]_bulkVars => [D!Next]_statuses
    <2>1. BulkInv' => StatusRules'
      BY Statuses, PTL
    <2> QED
      BY Statuses, <2>1, NextMaps DEF BulkInv, Step
  <1> QED
    BY <1>1, InitMaps, Invariance, PTL DEF Spec, ImplementsDelivery, D!Spec, statuses
=============================================================================
