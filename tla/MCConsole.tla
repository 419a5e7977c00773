----------------------------- MODULE MCConsole ------------------------------
(* Model-checking instance of Console. *)
EXTENDS Console

CONSTANTS p1, p2, r1, r2, r3

OnePage == {p1}
TwoPages == {p1, p2}
TwoRequests == {r1, r2}
ThreeRequests == {r1, r2, r3}

\* The properties claim nothing of a hasty state, nor of what follows it.
Patient == ~hasty
=============================================================================
