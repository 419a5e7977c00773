---------------------------- MODULE MCPublisher -----------------------------
(* Model-checking instance of Publisher. *)
EXTENDS Publisher

CONSTANTS u1, w1, w2

OneUser == {u1}
TwoWorkers == {w1, w2}
=============================================================================
