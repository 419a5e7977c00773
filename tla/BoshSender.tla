----------------------------- MODULE BoshSender -----------------------------
(***************************************************************************)
(* ApacheHTTPSender.java, which takes the place of the class of the same   *)
(* name in the BOSH library: the library makes one of these for each BOSH  *)
(* session and calls init, send and destroy.  Each method does its work    *)
(* under the sender's lock, so each is one step here.  The connection      *)
(* manager, however, is static: all senders of the process share one.      *)
(***************************************************************************)
CONSTANT Senders

VARIABLES
    cfg,          \* for each sender whether it has a configuration
    httpClient,   \* for each sender whether it has a client
    httpCM        \* the shared connection manager: "open" or "shut"

senderVars == <<cfg, httpClient, httpCM>>

SenderInit ==
    /\ cfg = [s \in Senders |-> FALSE]
    /\ httpClient = [s \in Senders |-> FALSE]
    /\ httpCM = "open"

SenderTypeOK ==
    /\ cfg \in [Senders -> BOOLEAN]
    /\ httpClient \in [Senders -> BOOLEAN]
    /\ httpCM \in {"open", "shut"}

-----------------------------------------------------------------------------
init(s) ==
    /\ cfg' = [cfg EXCEPT ![s] = TRUE]
    /\ httpClient' = [httpClient EXCEPT ![s] = TRUE]
    /\ UNCHANGED httpCM

\* Shutting the client down shuts its connection manager down.
destroy(s) ==
    /\ httpCM' = IF httpClient[s] THEN "shut" ELSE httpCM
    /\ cfg' = [cfg EXCEPT ![s] = FALSE]
    /\ httpClient' = [httpClient EXCEPT ![s] = FALSE]

\* A sender without a client builds one, which needs the configuration.
SendThrows(s) == ~httpClient[s] /\ ~cfg[s]

send(s) ==
    /\ ~SendThrows(s)
    /\ httpClient' = [httpClient EXCEPT ![s] = TRUE]
    /\ UNCHANGED <<cfg, httpCM>>
=============================================================================
