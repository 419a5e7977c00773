----------------------------- MODULE MCBulkData -----------------------------
(* Model-checking instance of BulkData. *)
EXTENDS BulkData, TLC

CONSTANTS w1, w2, e1, e2, e3, e4

TwoWorkers == {w1, w2}
FourItems == {e1, e2, e3, e4}
=============================================================================
