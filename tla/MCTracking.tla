----------------------------- MODULE MCTracking ------------------------------
(* Model-checking instance of Tracking. *)
EXTENDS Tracking

CONSTANTS u1, w1, w2

OneUser == {u1}
OneWorker == {w1}
TwoWorkers == {w1, w2}
=============================================================================
