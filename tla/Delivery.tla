------------------------------ MODULE Delivery ------------------------------
(***************************************************************************)
(* What the bulk dispatcher promises about each item handed to it, without *)
(* queue, workers or HTTP.  An item is handed in once, reaches Mission     *)
(* Control at most once, is confirmed to its owner only after it reached   *)
(* Mission Control, and can be lost only before it is confirmed and only   *)
(* together with the one batch of at most MaxDispatchSize items that was   *)
(* being sent with it.                                                     *)
(***************************************************************************)
EXTENDS Naturals, FiniteSets

CONSTANTS Items,             \* everything that is ever handed in
          MaxDispatchSize    \* the largest number of items sent together

VARIABLE status

Status == {"new", "pending", "delivered", "confirmed", "lost"}

Init == status = [i \in Items |-> "new"]

\* Every item of S, now in one of the stages of from, moves to the stage to.
Move(S, from, to) ==
    /\ \A i \in S : status[i] \in from
    /\ status' = [i \in Items |-> IF i \in S THEN to ELSE status[i]]

Batch == {S \in SUBSET Items : S # {} /\ Cardinality(S) =< MaxDispatchSize}

Submit(i)  == Move({i}, {"new"}, "pending")
Deliver(S) == Move(S, {"pending"}, "delivered")
Confirm(i) == Move({i}, {"delivered"}, "confirmed")
Lose(S)    == Move(S, {"pending", "delivered"}, "lost")

Next ==
    \/ \E i \in Items : Submit(i) \/ Confirm(i)
    \/ \E S \in Batch : Deliver(S) \/ Lose(S)

Spec == Init /\ [][Next]_status
=============================================================================
