---------------------------- MODULE MCTableView -----------------------------
(* Model-checking instance of TableView. *)
EXTENDS TableView, TLC

CONSTANTS h1, h2, ann, bob, a1, q1

TwoHandlers == {h1, h2}
TwoUsers == {ann, bob}
OneAsk == {q1}
SetOfHandlers == Permutations(TwoHandlers)

New(u, e) == [id |-> u, type |-> "new", event |-> e]
Ack(u, e) == [id |-> u, type |-> "ack", event |-> e]
Listens(u, status) == [id |-> u, type |-> "ListenerStatus", event |-> status]

\* A batch of the publisher and one of the subscriber.
TwoBatches == { <<New(ann, a1)>>, <<Listens(ann, "true"), Ack(ann, a1)>> }

BothUsers == <<ann, bob>>
=============================================================================
