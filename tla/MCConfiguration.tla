-------------------------- MODULE MCConfiguration ---------------------------
(* Model-checking instance of Configuration. *)
EXTENDS Configuration

CONSTANTS p1, p2, r1, r2

OnePage == {p1}
TwoPages == {p1, p2}
TwoRequests == {r1, r2}
=============================================================================
