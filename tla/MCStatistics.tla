---------------------------- MODULE MCStatistics ----------------------------
(* Model-checking instance of Statistics. *)
EXTENDS Statistics, TLC

CONSTANTS h1, h2, ann, bob, a1, a2, b1

TwoHandlers == {h1, h2}
TwoUsers == {ann, bob}
SetOfHandlers == Permutations(TwoHandlers)

New(u, e) == [id |-> u, type |-> "new", event |-> e]
Ack(u, e) == [id |-> u, type |-> "ack", event |-> e]
Listens(u, status) == [id |-> u, type |-> "ListenerStatus", event |-> status]

\* Two batches of the publisher and two of the subscriber.
FourBatches == { <<New(ann, a1), New(bob, b1)>>, <<New(ann, a2)>>,
                 <<Listens(bob, "true"), Ack(ann, a1)>>, <<Ack(bob, b1)>> }

BothUsers == <<ann, bob>>
=============================================================================
