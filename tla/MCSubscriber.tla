---------------------------- MODULE MCSubscriber ----------------------------
(* Model-checking instance of Subscriber. *)
EXTENDS Subscriber

CONSTANTS a1, a2, a3

TwoAgents == {a1, a2}
ThreeAgents == {a1, a2, a3}
BothProtocols == {"BOSH", "XMPP"}
=============================================================================
