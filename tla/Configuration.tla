---------------------------- MODULE Configuration ----------------------------
(***************************************************************************)
(* controller/api/OpenfireConfig.java with its two kinds of clients: the   *)
(* settings of the page (app.js), which load the configuration, let the    *)
(* user change it and save all of it, and the programs that load it when   *)
(* they start, SubscriberMain and PublisherMain.                           *)
(*                                                                         *)
(* The configuration is one file that every save truncates and then writes *)
(* while other threads may do the same or read it.  Of its fields only two *)
(* differ in what the page does with them: the text inputs, modelled as    *)
(* one, and the button listenerTypeBtn.                                    *)
(***************************************************************************)
EXTENDS Naturals, FiniteSets

CONSTANTS Pages,          \* the browser tabs that show the page
          Requests,       \* the requests of pages that can be under way at a time
          Inputs,         \* what a user may type into the inputs
          Wide,           \* those with characters of more than one byte
          Programs,       \* the programs that start: SubscriberMain, PublisherMain
          MaxClicks,      \* bound on what users do
          MaxFailures     \* bound on the accesses to the file that fail

ASSUME ConfigurationAssumption ==
    /\ Wide \subseteq Inputs
    /\ "" \notin Inputs
    /\ MaxClicks \in Nat
    /\ MaxFailures \in Nat

VARIABLES
    file,        \* "missing", "empty", "whole", or "mixed" if there is a rest of
                 \* another configuration behind the one that it begins with
    config,      \* the configuration that the file begins with
    page,        \* for each page "closed", "loading" or "loaded"
    form,        \* for each page what its settings show
    request,     \* what is known of each request
    started,     \* for each program the configuration that it runs with
    clicks, failures,
    saved,       \* history: the configurations that were ever in the file
    touched,     \* history: the settings that users changed and have not saved
    wanted,      \* history: for each setting what a user saved deliberately
    outdated,    \* history: the pages that loaded before another page saved
    careless     \* history: a user did not wait for an answer, or saved an
                 \* outdated page

fileVars == <<file, config>>
pageVars == <<page, form>>
historyVars == <<saved, touched, wanted, outdated, careless>>
vars == <<fileVars, pageVars, request, started, clicks, failures, historyVars>>

Setting == {"input", "listenerType"}
ListenerType == {"", "Select", "BOSH", "XMPP"}
Config == [input : Inputs \cup {""}, listenerType : ListenerType]

EmptyJson == [input |-> "", listenerType |-> ""]
BlankForm == [input |-> "", listenerType |-> "Select"]

NotStarted == [state |-> "waiting"]
NoRequest == [stage |-> "none"]
UnderWay(r) == request[r].stage # "none"
Saving == {r \in Requests : UnderWay(r) /\ request[r].action = "save"}

\* A file that an earlier Mission Control left behind is whole.
Init ==
    /\ \/ file = "missing" /\ config = EmptyJson
       \/ file = "whole" /\ config \in [input : Inputs, listenerType : {"BOSH", "XMPP"}]
    /\ page = [p \in Pages |-> "closed"]
    /\ form = [p \in Pages |-> BlankForm]
    /\ request = [r \in Requests |-> NoRequest]
    /\ started = [s \in Programs |-> NotStarted]
    /\ clicks = 0 /\ failures = 0
    /\ saved = IF file = "whole" THEN {config} ELSE {}
    /\ touched = [p \in Pages |-> {}]
    /\ wanted = config
    /\ outdated = {}
    /\ careless = FALSE

-----------------------------------------------------------------------------
(* Users. *)

Click == clicks < MaxClicks /\ clicks' = clicks + 1

\* It does not matter which request is taken of those that are free.
Free == CHOOSE r \in Requests : ~UnderWay(r)
CanSend == \E r \in Requests : ~UnderWay(r)

\* A page is opened, or loaded again: then its settings are blank, and what it had
\* asked for is handled but not shown any more.
OpenPage(p) ==
    /\ Click /\ CanSend
    /\ page' = [page EXCEPT ![p] = "loading"]
    /\ form' = [form EXCEPT ![p] = BlankForm]
    /\ request' = [r \in Requests |->
          IF r = Free THEN [stage |-> "sent", page |-> p, action |-> "load", shown |-> TRUE]
          ELSE IF UnderWay(r) /\ request[r].page = p THEN [request[r] EXCEPT !.shown = FALSE]
          ELSE request[r]]
    /\ touched' = [touched EXCEPT ![p] = {}]
    /\ outdated' = outdated \ {p}
    /\ careless' = (careless \/ Saving # {})
    /\ UNCHANGED <<fileVars, started, failures, saved, wanted>>

Change(p, setting, value) ==
    /\ Click /\ page[p] # "closed"
    /\ form' = [form EXCEPT ![p][setting] = value]
    /\ touched' = [touched EXCEPT ![p] = @ \cup {setting}]
    /\ careless' = (careless \/ page[p] = "loading")
    /\ UNCHANGED <<fileVars, page, request, started, failures, saved, wanted, outdated>>

Type(p) == \E text \in Inputs \ {form[p].input} : Change(p, "input", text)
PickListenerType(p) ==
    \E type \in {"BOSH", "XMPP"} \ {form[p].listenerType} : Change(p, "listenerType", type)

\* saveConfig sends all settings, whatever they show.
ClickSave(p) ==
    /\ Click /\ CanSend /\ page[p] # "closed"
    /\ request' = [request EXCEPT ![Free] =
          [stage |-> "sent", page |-> p, action |-> "save", shown |-> TRUE, config |-> form[p]]]
    /\ wanted' = [s \in Setting |-> IF s \in touched[p] THEN form[p][s] ELSE wanted[s]]
    /\ touched' = [touched EXCEPT ![p] = {}]
    /\ outdated' = outdated \cup (Pages \ {p})
    /\ careless' = (careless \/ page[p] = "loading" \/ p \in outdated \/ Saving # {})
    /\ UNCHANGED <<fileVars, pageVars, started, failures, saved>>

-----------------------------------------------------------------------------
(* Mission Control. *)

Arrived(r, action) == request[r].stage = "sent" /\ request[r].action = action
HandlerVars == <<pageVars, started, clicks, touched, wanted, outdated, careless>>

\* The length of the answer is counted in characters: if it has more bytes, writing
\* it throws and no answer comes.  Nobody knows that of a rest at the end.
Breaks == file \in {"whole", "mixed"} /\ config.input \in Wide
MayBreak == Breaks \/ (file = "mixed" /\ \E c \in saved : c.input \in Wide)

\* loadConfig.  What is not JSON as a whole, the page takes for no settings at all.
LoadConfig(r) ==
    /\ Arrived(r, "load") /\ ~Breaks
    /\ request' = [request EXCEPT ![r] =
          [stage |-> "answered", page |-> @.page, action |-> "load", shown |-> @.shown,
           json |-> file \in {"missing", "whole"},
           config |-> IF file = "whole" THEN config ELSE EmptyJson]]
    /\ UNCHANGED <<fileVars, HandlerVars, failures, saved>>

NoAnswer(r) ==
    /\ Arrived(r, "load") /\ MayBreak
    /\ request' = [request EXCEPT ![r] = NoRequest]
    /\ UNCHANGED <<fileVars, HandlerVars, failures, saved>>

\* Faulty variant: the file is written from its beginning, and a longer one before
\* it leaves a rest.
TruncateNot(r) ==
    /\ Arrived(r, "save")
    /\ request' = [request EXCEPT ![r].stage = "writing"]
    /\ UNCHANGED <<fileVars, HandlerVars, failures, saved>>

\* saveConfig: opening the file for writing empties it ...
Truncate(r) ==
    /\ Arrived(r, "save")
    /\ file' = "empty"
    /\ request' = [request EXCEPT ![r].stage = "writing"]
    /\ UNCHANGED <<config, HandlerVars, failures, saved>>

\* ... and writing begins at its beginning: of something longer that another save
\* wrote in between a rest stays.
Write(r) ==
    /\ request[r].stage = "writing"
    /\ file' \in IF file \in {"missing", "empty"} \/ (file = "whole" /\ config = request[r].config)
                 THEN {"whole"} ELSE {"whole", "mixed"}
    /\ config' = request[r].config
    /\ saved' = saved \cup {request[r].config}
    /\ request' = [request EXCEPT ![r].stage = "answered"]
    /\ UNCHANGED <<HandlerVars, failures>>

\* The file can be neither read nor written: the answer is 500, and the page does
\* nothing about it.
FileFails(r) ==
    /\ request[r].stage \in {"sent", "writing"}
    /\ failures < MaxFailures
    /\ failures' = failures + 1
    /\ request' = [request EXCEPT ![r] = NoRequest]
    /\ UNCHANGED <<fileVars, HandlerVars, saved>>

-----------------------------------------------------------------------------
(* The page gets the answers. *)

Answered(r, action) == request[r].stage = "answered" /\ request[r].action = action

\* The page of a load shows the settings c.
Shows(r, c) ==
    /\ Answered(r, "load") /\ request[r].shown
    /\ LET p == request[r].page
       IN  /\ form' = [form EXCEPT ![p] = c]
           /\ page' = [page EXCEPT ![p] = "loaded"]
           /\ touched' = [touched EXCEPT ![p] = {}]
    /\ request' = [request EXCEPT ![r] = NoRequest]
    /\ UNCHANGED <<fileVars, started, clicks, failures, saved, wanted, outdated, careless>>

\* Faulty variant: the button for the listener type is left out.
ShowInputsOnly(r) ==
    /\ UnderWay(r)
    /\ Shows(r, [form[request[r].page] EXCEPT !.input = request[r].config.input])

\* Faulty variant: what is undefined is shown as a word.
ShowUndefined(r) ==
    /\ UnderWay(r)
    /\ Shows(r, IF request[r].json THEN request[r].config
                ELSE [input |-> "", listenerType |-> "undefined"])

\* Faulty variant: the callback is only called for an answer that is JSON.
ShowIfJson(r) == Answered(r, "load") /\ request[r].json /\ Shows(r, request[r].config)

\* undefined clears an input, but leaves the text of a button as it is.
ShowConfig(r) ==
    /\ UnderWay(r)
    /\ Shows(r, IF request[r].json THEN request[r].config
                ELSE [form[request[r].page] EXCEPT !.input = ""])

\* The answer to a save is only shown; an answer for a page that was loaded again
\* is dropped.
ShowResult(r) ==
    /\ Answered(r, "save") \/ (Answered(r, "load") /\ ~request[r].shown)
    /\ request' = [request EXCEPT ![r] = NoRequest]
    /\ UNCHANGED <<fileVars, HandlerVars, failures, saved>>

-----------------------------------------------------------------------------
(* The programs start. *)

Run(s, c) ==
    started' = [started EXCEPT ![s] = [state |-> "running", config |-> c]]

\* Faulty variant: the listener type is asked for in a request of its own, later.
StartRereads(s) ==
    /\ started[s].state # "ended"
    /\ IF started[s] = NotStarted
       THEN file \in {"whole", "mixed"} /\ config.input # "" /\ Run(s, config)
       ELSE Run(s, [started[s].config EXCEPT !.listenerType = config.listenerType])
    /\ UNCHANGED <<fileVars, pageVars, request, clicks, failures, historyVars>>

\* main(): JSONObject reads one object and ignores the rest; of an empty file, an
\* answer that breaks off and an empty number it makes an exception, which ends the
\* program.
Start(s) ==
    /\ started[s] = NotStarted
    /\ \/ /\ file \in {"whole", "mixed"} /\ ~Breaks /\ config.input # ""
          /\ Run(s, config)
       \/ /\ file \in {"missing", "empty"} \/ MayBreak \/ config.input = ""
          /\ started' = [started EXCEPT ![s] = [state |-> "ended"]]
    /\ UNCHANGED <<fileVars, pageVars, request, clicks, failures, historyVars>>

-----------------------------------------------------------------------------
UserStep(p) == OpenPage(p) \/ Type(p) \/ PickListenerType(p) \/ ClickSave(p)
HandleStep(r) == LoadConfig(r) \/ NoAnswer(r) \/ Truncate(r) \/ Write(r)
ShowStep(r) == ShowConfig(r) \/ ShowResult(r)

Next ==
    \/ \E p \in Pages : UserStep(p)
    \/ \E r \in Requests : HandleStep(r) \/ ShowStep(r) \/ FileFails(r)
    \/ \E s \in Programs : Start(s)

Spec == Init /\ [][Next]_vars

\* Requests are handled and answers shown.
FairSpec ==
    /\ Spec
    /\ \A r \in Requests : WF_vars(HandleStep(r)) /\ WF_vars(ShowStep(r))

-----------------------------------------------------------------------------
ConfigurationTypeOK ==
    /\ file \in {"missing", "empty", "whole", "mixed"}
    /\ config \in Config
    /\ page \in [Pages -> {"closed", "loading", "loaded"}]
    /\ form \in [Pages -> Config]
    /\ \A r \in Requests :
          /\ request[r].stage \in {"none", "sent", "writing", "answered"}
          /\ UnderWay(r) => request[r].page \in Pages /\ request[r].action \in {"load", "save"}
          /\ request[r].stage = "writing" => request[r].action = "save"
    /\ \A s \in Programs : started[s].state \in {"waiting", "running", "ended"}
    /\ clicks \in 0 .. MaxClicks
    /\ failures \in 0 .. MaxFailures
    /\ saved \subseteq Config
    /\ touched \in [Pages -> SUBSET Setting]
    /\ wanted \in Config
    /\ outdated \subseteq Pages
    /\ careless \in BOOLEAN

\* Whatever saves and failures overlap, a program that runs does so with one
\* configuration that somebody saved as it is, never with parts of two.
RunsWithOneConfig ==
    \A s \in Programs : started[s].state = "running" => started[s].config \in saved

\* As long as users wait for answers and do not save a page that another has
\* overtaken, every setting has the value that a user last gave it: the settings
\* that nobody touched survive the way through the form and back.
NoChangeLost ==
    careless \/ failures > 0 \/ Saving # {} \/ file = "missing"
        \/ (file = "whole" /\ config = wanted)

\* Under the same condition a page that is loaded shows what is in the file, except
\* for what its own user has changed.
FormFits ==
    \A p \in Pages :
        careless \/ failures > 0 \/ Saving # {} \/ page[p] # "loaded" \/ p \in outdated
            \/ \A s \in Setting \ touched[p] : form[p][s] = config[s]

\* Loading ends, unless the file fails or has a character of more than one byte.
LoadingEnds ==
    \A p \in Pages :
        page[p] = "loading" ~> (page[p] = "loaded" \/ failures > 0
                                \/ \E c \in saved : c.input \in Wide)
=============================================================================
