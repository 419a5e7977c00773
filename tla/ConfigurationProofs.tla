------------------------- MODULE ConfigurationProofs --------------------------
(***************************************************************************)
(* Proofs about Configuration for every set of pages, requests, programs   *)
(* and inputs, and every number of clicks and failures.                    *)
(***************************************************************************)
EXTENDS Configuration, TLAPS

\* What is known of a request: the answer to a load carries what the file held.
LoadSent == [stage : {"sent"}, page : Pages, action : {"load"}, shown : BOOLEAN]
LoadAnswered == [stage : {"answered"}, page : Pages, action : {"load"}, shown : BOOLEAN,
                 json : BOOLEAN, config : Config]
Save == [stage : {"sent", "writing", "answered"}, page : Pages, action : {"save"},
         shown : BOOLEAN, config : Config]
Request == {NoRequest} \cup LoadSent \cup LoadAnswered \cup Save

Program == {NotStarted, [state |-> "ended"]} \cup [state : {"running"}, config : Config]

\* The type invariant, with requests and programs as sets of records.
Types ==
    /\ file \in {"missing", "empty", "whole", "mixed"}
    /\ config \in Config
    /\ page \in [Pages -> {"closed", "loading", "loaded"}]
    /\ form \in [Pages -> Config]
    /\ request \in [Requests -> Request]
    /\ started \in [Programs -> Program]
    /\ clicks \in 0 .. MaxClicks
    /\ failures \in 0 .. MaxFailures
    /\ saved \subseteq Config
    /\ touched \in [Pages -> SUBSET Setting]
    /\ wanted \in Config
    /\ outdated \subseteq Pages
    /\ careless \in BOOLEAN

\* The loads whose answer the page still waits for: one for each page that loads.
Loading == {r \in Requests : UnderWay(r) /\ request[r].action = "load" /\ request[r].shown}

LoadsFit ==
    /\ \A r \in Loading : page[request[r].page] = "loading"
    /\ \A q, r \in Loading : request[q].page = request[r].page => q = r
    /\ file = "missing" => config = EmptyJson

Calm == ~careless /\ failures = 0

\* There is one save at a time.  It is on its way with what the users want, and only
\* while it writes the file is not whole.
SavesFit ==
    /\ \A q, r \in Saving : q = r
    /\ \A r \in Saving :
          /\ request[r].config = wanted
          /\ request[r].stage = "sent" => file \in {"missing", "whole"}
          /\ request[r].stage = "writing" => file = "empty"
          /\ request[r].stage = "answered" => file = "whole" /\ config = wanted
    /\ Saving = {} => file \in {"missing", "whole"} /\ config = wanted

\* Nobody saves while a page loads what it will not show outdated, and the answer is
\* what the file says.
AnswersFit ==
    \A r \in Loading : request[r].page \notin outdated =>
        /\ Saving = {}
        /\ request[r].stage = "answered" => request[r].json /\ request[r].config = config

\* A page that is up to date shows what the users want, also while it is being saved.
FormsFit ==
    \A p \in Pages : page[p] = "loaded" /\ p \notin outdated =>
        \A s \in Setting \ touched[p] : form[p][s] = wanted[s]

CalmParts == SavesFit /\ AnswersFit /\ FormsFit

CalmInv == Calm => CalmParts

\* Whatever runs, and whatever the file begins with, was saved.
SavedInv ==
    /\ file \in {"whole", "mixed"} => config \in saved
    /\ RunsWithOneConfig

-----------------------------------------------------------------------------
(* Types. *)

\* A request keeps its kind and its configuration in every step but the last.
LEMMA RequestKinds ==
    ASSUME NEW q \in Request
    PROVE  /\ q.stage \in {"none", "sent", "writing", "answered"}
           /\ q.stage # "none" => q \in LoadSent \cup LoadAnswered \cup Save
           /\ q.stage = "none" => q = NoRequest
           /\ q.stage = "writing" => q \in Save
           /\ q.stage # "none" => q.page \in Pages /\ q.shown \in BOOLEAN
           /\ q.stage # "none" /\ q.action = "save" => q \in Save /\ q.config \in Config
           /\ q.stage # "none" /\ q.action # "save" => q.action = "load"
           /\ q.stage = "sent" /\ q.action = "load" => q \in LoadSent
           /\ q.stage = "answered" /\ q.action = "load" => q \in LoadAnswered /\ q.config \in Config
  BY DEF Request, NoRequest, LoadSent, LoadAnswered, Save

LEMMA RequestSteps ==
    ASSUME NEW q \in Request, q.stage # "none"
    PROVE  /\ [q EXCEPT !.shown = FALSE] \in Request
           /\ q \in Save => [q EXCEPT !.stage = "writing"] \in Save
           /\ q \in Save => [q EXCEPT !.stage = "answered"] \in Save
  <1>1. CASE q \in LoadSent
    BY <1>1 DEF Request, LoadSent, Save
  <1>2. CASE q \in LoadAnswered
    BY <1>2 DEF Request, LoadAnswered, Save
  <1>3. CASE q \in Save
    BY <1>3 DEF Request, Save
  <1> QED
    BY <1>1, <1>2, <1>3, RequestKinds

LEMMA FormSteps ==
    ASSUME NEW c \in Config
    PROVE  /\ \A t \in Inputs \cup {""} : [c EXCEPT !.input = t] \in Config
           /\ \A t \in ListenerType : [c EXCEPT !.listenerType = t] \in Config
           /\ c.input \in Inputs \cup {""} /\ c.listenerType \in ListenerType
  BY DEF Config

\* What is wanted is put together of two configurations.
LEMMA Mixture ==
    ASSUME NEW c \in Config, NEW d \in Config, NEW S
    PROVE  /\ [s \in Setting |-> IF s \in S THEN c[s] ELSE d[s]] \in Config
           /\ (\A s \in Setting \ S : c[s] = d[s]) =>
                 [s \in Setting |-> IF s \in S THEN c[s] ELSE d[s]] = c
  <1> DEFINE m == [s \in Setting |-> IF s \in S THEN c[s] ELSE d[s]]
  <1>1. m["input"] \in Inputs \cup {""} /\ m["listenerType"] \in ListenerType
    BY DEF Setting, Config
  <1>2. m = [input |-> m["input"], listenerType |-> m["listenerType"]]
    BY DEF Setting
  <1>3. m \in Config
    BY <1>1, <1>2 DEF Config
  <1>4. ASSUME \A s \in Setting \ S : c[s] = d[s]
        PROVE  m = c
    <2>1. m["input"] = c["input"] /\ m["listenerType"] = c["listenerType"]
      BY <1>4 DEF Setting
    <2>2. c = [input |-> c["input"], listenerType |-> c["listenerType"]]
      BY DEF Config
    <2> QED
      BY <1>2, <2>1, <2>2
  <1> QED
    BY <1>3, <1>4

LEMMA Bounds == MaxClicks \in Nat /\ MaxFailures \in Nat
  BY ConfigurationAssumption DEF ConfigurationAssumption

LEMMA InitTypes == Init => Types
  <1> SUFFICES ASSUME Init
               PROVE  Types
    OBVIOUS
  <1>1. config \in Config /\ saved \subseteq Config /\ wanted \in Config
    <2>1. config \in Config
      <3>1. EmptyJson \in Config
        BY DEF Config, EmptyJson, ListenerType
      <3>2. [input : Inputs, listenerType : {"BOSH", "XMPP"}] \subseteq Config
        BY DEF Config, ListenerType
      <3> QED
        BY <3>1, <3>2 DEF Init
    <2> QED
      BY <2>1 DEF Init
  <1>2. form \in [Pages -> Config]
    BY DEF Init, Config, BlankForm, ListenerType
  <1>3. request \in [Requests -> Request] /\ started \in [Programs -> Program]
    BY DEF Init, Request, Program
  <1>4. page \in [Pages -> {"closed", "loading", "loaded"}] /\ touched \in [Pages -> SUBSET Setting]
    BY DEF Init
  <1>5. clicks \in 0 .. MaxClicks /\ failures \in 0 .. MaxFailures
    <2>1. clicks = 0 /\ failures = 0
      BY DEF Init
    <2> QED
      BY <2>1, Bounds
  <1> QED
    BY <1>1, <1>2, <1>3, <1>4, <1>5 DEF Init, Types

\* Which request is free is settled, and it is one.
LEMMA FreeIsOne ==
    ASSUME CanSend
    PROVE  Free \in Requests /\ ~UnderWay(Free)
  BY DEF CanSend, Free

LEMMA UserTypes ==
    ASSUME Types, NEW p \in Pages, UserStep(p)
    PROVE  Types'
  <1>1. ASSUME Click
        PROVE  clicks' \in 0 .. MaxClicks
    BY <1>1, Bounds DEF Click, Types
  <1>2. CASE OpenPage(p)
    <2>1. ASSUME NEW r \in Requests
          PROVE  request'[r] \in Request
      <3>1. CASE r = Free
        BY <1>2, <3>1 DEF OpenPage, Request, LoadSent
      <3>2. CASE r # Free /\ UnderWay(r) /\ request[r].page = p
        <4>1. request'[r] = [request[r] EXCEPT !.shown = FALSE]
          BY <1>2, <3>2 DEF OpenPage
        <4>2. request[r] \in Request /\ request[r].stage # "none"
          BY <3>2 DEF Types, UnderWay
        <4> QED
          BY <4>1, <4>2, RequestSteps
      <3>3. CASE r # Free /\ ~(UnderWay(r) /\ request[r].page = p)
        BY <1>2, <3>3 DEF OpenPage, Types
      <3> QED
        BY <3>1, <3>2, <3>3
    <2>2. request' \in [Requests -> Request]
      <3>1. request' = [r \in Requests |-> request'[r]]
        BY <1>2 DEF OpenPage
      <3> QED
        BY <2>1, <3>1
    <2>3. /\ page' \in [Pages -> {"closed", "loading", "loaded"}]
          /\ touched' \in [Pages -> SUBSET Setting]
      BY <1>2 DEF OpenPage, Types
    <2>4. form' \in [Pages -> Config]
      BY <1>2 DEF OpenPage, Types, BlankForm, Config, ListenerType
    <2> QED
      BY <1>1, <1>2, <2>2, <2>3, <2>4 DEF OpenPage, Types, fileVars
  <1>3. ASSUME NEW setting \in Setting, NEW value, NEW d \in Config,
               Change(p, setting, value), d = [form[p] EXCEPT ![setting] = value]
        PROVE  Types'
    <2>1. form' = [form EXCEPT ![p] = d]
      BY <1>3 DEF Change
    <2>2. form' \in [Pages -> Config] /\ touched' \in [Pages -> SUBSET Setting]
      BY <1>3, <2>1 DEF Change, Types
    <2> QED
      BY <1>1, <1>3, <2>2 DEF Change, Types, fileVars
  <1>4. CASE Type(p)
    <2>1. PICK text \in Inputs : Change(p, "input", text)
      BY <1>4 DEF Type
    <2>2. [form[p] EXCEPT !["input"] = text] \in Config
      BY FormSteps DEF Types
    <2> QED
      BY <1>3, <2>1, <2>2 DEF Setting
  <1>5. CASE PickListenerType(p)
    <2>1. PICK type \in ListenerType : Change(p, "listenerType", type)
      BY <1>5 DEF PickListenerType, ListenerType
    <2>2. [form[p] EXCEPT !["listenerType"] = type] \in Config
      BY FormSteps DEF Types
    <2> QED
      BY <1>3, <2>1, <2>2 DEF Setting
  <1>6. CASE ClickSave(p)
    <2>1. request' \in [Requests -> Request]
      BY <1>6, FreeIsOne DEF ClickSave, Types, Request, Save
    <2>2. wanted' \in Config
      BY <1>6, Mixture DEF ClickSave, Types
    <2>3. touched' \in [Pages -> SUBSET Setting] /\ outdated' \subseteq Pages
      BY <1>6 DEF ClickSave, Types
    <2>4. careless' \in BOOLEAN
      BY <1>6 DEF ClickSave
    <2> QED
      BY <1>1, <1>6, <2>1, <2>2, <2>3, <2>4 DEF ClickSave, Types, fileVars, pageVars
  <1> QED
    BY <1>2, <1>4, <1>5, <1>6 DEF UserStep

LEMMA HandlerTypes ==
    ASSUME Types, NEW r \in Requests, HandleStep(r) \/ FileFails(r)
    PROVE  Types'
  <1>0. request[r] \in Request /\ NoRequest \in Request
    BY DEF Types, Request
  <1>1. CASE LoadConfig(r)
    <2>1. EmptyJson \in Config
      BY DEF EmptyJson, Config, ListenerType
    <2>2. request[r] \in LoadSent
      BY <1>0, <1>1, RequestKinds DEF LoadConfig, Arrived
    <2>3. PICK q : /\ q = [stage |-> "answered", page |-> request[r].page, action |-> "load",
                           shown |-> request[r].shown, json |-> file \in {"missing", "whole"},
                           config |-> IF file = "whole" THEN config ELSE EmptyJson]
                  /\ request' = [request EXCEPT ![r] = q]
      BY <1>1 DEF LoadConfig
    <2>4. q \in LoadAnswered
      BY <2>1, <2>2, <2>3 DEF LoadSent, LoadAnswered, Types
    <2>5. request' \in [Requests -> Request]
      BY <2>3, <2>4 DEF Types, Request
    <2> QED
      BY <1>1, <2>5 DEF LoadConfig, HandlerVars, fileVars, pageVars, Types
  <1>2. CASE NoAnswer(r)
    <2>1. request' \in [Requests -> Request]
      BY <1>0, <1>2 DEF NoAnswer, Types
    <2> QED
      BY <1>2, <2>1 DEF NoAnswer, HandlerVars, fileVars, pageVars, Types
  <1>3. CASE Truncate(r)
    <2>1. [request[r] EXCEPT !.stage = "writing"] \in Request
      <3>1. request[r] \in Save /\ request[r].stage # "none"
        BY <1>0, <1>3, RequestKinds DEF Truncate, Arrived
      <3> QED
        BY <1>0, <3>1, RequestSteps DEF Request
    <2>2. request' = [request EXCEPT ![r] = [request[r] EXCEPT !.stage = "writing"]]
      BY <1>3 DEF Truncate
    <2>3. request' \in [Requests -> Request]
      BY <2>1, <2>2 DEF Types
    <2> QED
      BY <1>3, <2>3 DEF Truncate, HandlerVars, pageVars, Types
  <1>4. CASE Write(r)
    <2>1. request[r] \in Save /\ request[r].stage # "none" /\ request[r].config \in Config
      <3>1. request[r].stage = "writing"
        BY <1>4 DEF Write
      <3>2. request[r] \in Save
        BY <1>0, <3>1, RequestKinds
      <3> QED
        BY <3>1, <3>2 DEF Save
    <2>2. [request[r] EXCEPT !.stage = "answered"] \in Request
      BY <1>0, <2>1, RequestSteps DEF Request
    <2>3. request' = [request EXCEPT ![r] = [request[r] EXCEPT !.stage = "answered"]]
      BY <1>4 DEF Write
    <2>4. request' \in [Requests -> Request]
      BY <2>2, <2>3 DEF Types
    <2>5. config' \in Config /\ saved' \subseteq Config /\ file' \in {"whole", "mixed"}
      BY <1>4, <2>1 DEF Write, Types
    <2> QED
      BY <1>4, <2>4, <2>5 DEF Write, HandlerVars, pageVars, Types
  <1>5. CASE FileFails(r)
    <2>1. request' \in [Requests -> Request]
      BY <1>0, <1>5 DEF FileFails, Types
    <2>2. failures' \in 0 .. MaxFailures
      BY <1>5, Bounds DEF FileFails, Types
    <2> QED
      BY <1>5, <2>1, <2>2 DEF FileFails, HandlerVars, fileVars, pageVars, Types
  <1> QED
    BY <1>1, <1>2, <1>3, <1>4, <1>5 DEF HandleStep

LEMMA ShowTypes ==
    ASSUME Types, NEW r \in Requests, ShowStep(r)
    PROVE  Types'
  <1>0. request[r] \in Request /\ NoRequest \in Request
    BY DEF Types, Request
  <1>1. CASE ShowConfig(r)
    <2>1. /\ request[r] \in LoadAnswered /\ request[r].config \in Config
          /\ request[r].page \in Pages
      <3>1. request[r].stage = "answered" /\ request[r].action = "load"
        BY <1>1 DEF ShowConfig, Shows, Answered
      <3>2. request[r] \in LoadAnswered
        BY <1>0, <3>1, RequestKinds
      <3> QED
        BY <3>2 DEF LoadAnswered
    <2>2. PICK c : /\ Shows(r, c)
                  /\ c = IF request[r].json THEN request[r].config
                         ELSE [form[request[r].page] EXCEPT !.input = ""]
      BY <1>1 DEF ShowConfig
    <2>3. form[request[r].page] \in Config
      BY <2>1 DEF Types
    <2>4. c \in Config
      <3>1. [form[request[r].page] EXCEPT !.input = ""] \in Config
        BY <2>3, FormSteps
      <3> QED
        BY <2>1, <2>2, <3>1
    <2>5. form' \in [Pages -> Config]
      BY <2>2, <2>4 DEF Shows, Types
    <2>6. /\ page' \in [Pages -> {"closed", "loading", "loaded"}]
          /\ touched' \in [Pages -> SUBSET Setting]
          /\ request' \in [Requests -> Request]
      BY <1>0, <2>2 DEF Shows, Types
    <2> QED
      BY <2>2, <2>5, <2>6 DEF Shows, fileVars, Types
  <1>2. CASE ShowResult(r)
    <2>1. request' \in [Requests -> Request]
      BY <1>0, <1>2 DEF ShowResult, Types
    <2> QED
      BY <1>2, <2>1 DEF ShowResult, HandlerVars, fileVars, pageVars, Types
  <1> QED
    BY <1>1, <1>2 DEF ShowStep

LEMMA NextTypes == Types /\ [Next]_vars => Types'
  <1> SUFFICES ASSUME Types, [Next]_vars
               PROVE  Types'
    OBVIOUS
  <1>1. ASSUME NEW s \in Programs, Start(s)
        PROVE  Types'
    <2>1. [state |-> "running", config |-> config] \in Program /\ [state |-> "ended"] \in Program
      BY DEF Types, Program
    <2>2. started' \in [Programs -> Program]
      BY <1>1, <2>1 DEF Start, Run, Types
    <2> QED
      BY <1>1, <2>2 DEF Start, fileVars, pageVars, historyVars, Types
  <1>2. CASE UNCHANGED vars
    BY <1>2 DEF vars, fileVars, pageVars, historyVars, Types
  <1> QED
    BY <1>1, <1>2, UserTypes, HandlerTypes, ShowTypes DEF Next

\* Every variable of the configuration and of its pages keeps its type; what is being
\* written is a save.
THEOREM ConfigurationTypeCorrect == Spec => []ConfigurationTypeOK
  <1>1. Types => ConfigurationTypeOK
    <2> SUFFICES ASSUME Types
                 PROVE  ConfigurationTypeOK
      OBVIOUS
    <2>1. ASSUME NEW r \in Requests
          PROVE  /\ request[r].stage \in {"none", "sent", "writing", "answered"}
                 /\ UnderWay(r) => request[r].page \in Pages /\ request[r].action \in {"load", "save"}
                 /\ request[r].stage = "writing" => request[r].action = "save"
      <3>1. request[r] \in Request
        BY DEF Types
      <3> QED
        BY <3>1, RequestKinds DEF UnderWay, Save
    <2>2. \A s \in Programs : started[s].state \in {"waiting", "running", "ended"}
      BY DEF Types, Program, NotStarted
    <2> QED
      BY <2>1, <2>2 DEF Types, ConfigurationTypeOK
  <1> QED
    BY <1>1, InitTypes, NextTypes, PTL DEF Spec

-----------------------------------------------------------------------------
(* Programs. *)

LEMMA InitSaved == Init => SavedInv
  BY DEF Init, SavedInv, RunsWithOneConfig, NotStarted

LEMMA NextSaved == Types /\ SavedInv /\ [Next]_vars => SavedInv'
  <1> SUFFICES ASSUME Types, SavedInv, [Next]_vars
               PROVE  SavedInv'
    OBVIOUS
  <1>1. ASSUME NEW r \in Requests, Write(r)
        PROVE  SavedInv'
    BY <1>1 DEF Write, HandlerVars, SavedInv, RunsWithOneConfig
  <1>2. ASSUME NEW r \in Requests, Truncate(r)
        PROVE  SavedInv'
    BY <1>2 DEF Truncate, HandlerVars, SavedInv, RunsWithOneConfig
  <1>3. ASSUME NEW s \in Programs, Start(s)
        PROVE  SavedInv'
    <2>1. UNCHANGED <<file, config, saved>>
      BY <1>3 DEF Start, fileVars, historyVars
    <2>2. ASSUME NEW t \in Programs, started'[t].state = "running"
          PROVE  started'[t].config \in saved
      <3>1. CASE t # s
        <4>1. started'[t] = started[t]
          BY <1>3, <3>1 DEF Start, Run, Types
        <4> QED
          BY <2>2, <4>1 DEF SavedInv, RunsWithOneConfig
      <3>2. CASE t = s
        <4>1. \/ /\ file \in {"whole", "mixed"}
                 /\ started'[s] = [state |-> "running", config |-> config]
              \/ started'[s] = [state |-> "ended"]
          BY <1>3 DEF Start, Run, Types
        <4> QED
          BY <2>2, <3>2, <4>1 DEF SavedInv
      <3> QED
        BY <3>1, <3>2
    <2> QED
      BY <2>1, <2>2 DEF SavedInv, RunsWithOneConfig
  <1>4. CASE UNCHANGED <<file, config, saved, started>>
    BY <1>4 DEF SavedInv, RunsWithOneConfig
  <1>5. ASSUME NEW p \in Pages, UserStep(p)
        PROVE  UNCHANGED <<file, config, saved, started>>
    BY <1>5 DEF UserStep, OpenPage, Type, PickListenerType, Change, ClickSave, fileVars
  <1>6. ASSUME NEW r \in Requests, LoadConfig(r) \/ NoAnswer(r) \/ ShowStep(r) \/ FileFails(r)
        PROVE  UNCHANGED <<file, config, saved, started>>
    BY <1>6 DEF LoadConfig, NoAnswer, ShowStep, ShowConfig, Shows, ShowResult, FileFails,
                HandlerVars, fileVars
  <1> QED
    BY <1>1, <1>2, <1>3, <1>4, <1>5, <1>6 DEF Next, HandleStep, vars, fileVars, historyVars

\* A program runs with a configuration that somebody saved as a whole, however the
\* saves, loads and failures of the file overlap.
THEOREM OneConfig == Spec => []RunsWithOneConfig
  <1>1. SavedInv => RunsWithOneConfig
    BY DEF SavedInv
  <1> QED
    BY <1>1, InitTypes, NextTypes, InitSaved, NextSaved, PTL DEF Spec

-----------------------------------------------------------------------------
(* Settings.  No step makes a careless user careful or undoes a failure.     *)

\* What the steps of a handler and of a page do to the request that they work on.
LEMMA Effects ==
    ASSUME Types, NEW r \in Requests,
           HandleStep(r) \/ ShowStep(r) \/ FileFails(r)
    PROVE  /\ \A q \in Requests \ {r} : request'[q] = request[q]
           /\ NoAnswer(r) \/ FileFails(r) \/ ShowStep(r) => request'[r] = NoRequest
           /\ LoadConfig(r) =>
                 /\ request[r] \in LoadSent /\ request'[r] \in LoadAnswered
                 /\ request'[r].page = request[r].page /\ request'[r].shown = request[r].shown
                 /\ request'[r].json = (file \in {"missing", "whole"})
                 /\ request'[r].config = IF file = "whole" THEN config ELSE EmptyJson
           /\ Truncate(r) =>
                 /\ request[r] \in Save /\ request[r].stage = "sent"
                 /\ request'[r] = [request[r] EXCEPT !.stage = "writing"]
           /\ Write(r) =>
                 /\ request[r] \in Save /\ request[r].stage = "writing"
                 /\ request'[r] = [request[r] EXCEPT !.stage = "answered"]
           /\ ShowConfig(r) => request[r] \in LoadAnswered /\ request[r].shown
  <1>0. request \in [Requests -> Request] /\ request[r] \in Request
    BY DEF Types
  <1>1. \A q \in Requests \ {r} : request'[q] = request[q]
    BY <1>0 DEF HandleStep, LoadConfig, NoAnswer, Truncate, Write, ShowStep, ShowConfig, Shows,
                ShowResult, FileFails
  <1>2. NoAnswer(r) \/ FileFails(r) \/ ShowStep(r) => request'[r] = NoRequest
    BY <1>0 DEF NoAnswer, ShowStep, ShowConfig, Shows, ShowResult, FileFails
  <1>3. ASSUME LoadConfig(r)
        PROVE  /\ request[r] \in LoadSent /\ request'[r] \in LoadAnswered
               /\ request'[r].page = request[r].page /\ request'[r].shown = request[r].shown
               /\ request'[r].json = (file \in {"missing", "whole"})
               /\ request'[r].config = IF file = "whole" THEN config ELSE EmptyJson
    <2>1. request[r] \in LoadSent
      BY <1>0, <1>3, RequestKinds DEF LoadConfig, Arrived
    <2>2. request'[r] = [stage |-> "answered", page |-> request[r].page, action |-> "load",
                         shown |-> request[r].shown, json |-> file \in {"missing", "whole"},
                         config |-> IF file = "whole" THEN config ELSE EmptyJson]
      BY <1>0, <1>3 DEF LoadConfig
    <2>3. EmptyJson \in Config /\ config \in Config
      BY DEF EmptyJson, Config, ListenerType, Types
    <2>4. request'[r] \in LoadAnswered
      BY <2>1, <2>2, <2>3 DEF LoadSent, LoadAnswered
    <2> QED
      BY <2>1, <2>2, <2>4
  <1>4. ASSUME Truncate(r)
        PROVE  /\ request[r] \in Save /\ request[r].stage = "sent"
               /\ request'[r] = [request[r] EXCEPT !.stage = "writing"]
    <2>1. request[r].stage = "sent" /\ request[r].action = "save"
      BY <1>4 DEF Truncate, Arrived
    <2> QED
      BY <1>0, <1>4, <2>1, RequestKinds DEF Truncate
  <1>5. ASSUME Write(r)
        PROVE  /\ request[r] \in Save /\ request[r].stage = "writing"
               /\ request'[r] = [request[r] EXCEPT !.stage = "answered"]
    <2>1. request[r].stage = "writing"
      BY <1>5 DEF Write
    <2> QED
      BY <1>0, <1>5, <2>1, RequestKinds DEF Write
  <1>6. ASSUME ShowConfig(r)
        PROVE  request[r] \in LoadAnswered /\ request[r].shown
    BY <1>0, <1>6, RequestKinds DEF ShowConfig, Shows, Answered
  <1> QED
    BY <1>1, <1>2, <1>3, <1>4, <1>5, <1>6

\* How these steps change which requests are loads that a page waits for and which
\* are saves.
LEMMA Membership ==
    ASSUME Types, NEW r \in Requests, HandleStep(r) \/ ShowStep(r) \/ FileFails(r)
    PROVE  /\ Loading' \ {r} = Loading \ {r} /\ Saving' \ {r} = Saving \ {r}
           /\ LoadConfig(r) => /\ r \in Loading' <=> r \in Loading
                               /\ r \notin Saving /\ r \notin Saving'
           /\ NoAnswer(r) \/ FileFails(r) \/ ShowStep(r) => r \notin Loading' /\ r \notin Saving'
           /\ Truncate(r) \/ Write(r) => /\ r \in Saving /\ r \in Saving'
                                         /\ r \notin Loading /\ r \notin Loading'
           /\ ShowConfig(r) => r \in Loading /\ r \notin Saving
           /\ Loading \cup Loading' \cup Saving \cup Saving' \subseteq Requests
           /\ \A q \in Requests \ {r} : request'[q] = request[q]
  <1>1. Loading' \ {r} = Loading \ {r} /\ Saving' \ {r} = Saving \ {r}
    <2>1. \A q \in Requests \ {r} : request'[q] = request[q]
      BY Effects
    <2>2. \A q \in Requests \ {r} : (q \in Loading' <=> q \in Loading)
                                 /\ (q \in Saving' <=> q \in Saving)
      BY <2>1 DEF Loading, Saving, UnderWay
    <2>3. Loading \cup Loading' \cup Saving \cup Saving' \subseteq Requests
      BY DEF Loading, Saving
    <2> QED
      BY <2>2, <2>3
  <1>2. ASSUME LoadConfig(r)
        PROVE  (r \in Loading' <=> r \in Loading) /\ r \notin Saving /\ r \notin Saving'
    <2>1. request[r].stage = "sent" /\ request[r].action = "load"
      BY <1>2, Effects DEF LoadSent
    <2>2. request'[r].stage = "answered" /\ request'[r].action = "load"
      BY <1>2, Effects DEF LoadAnswered
    <2>3. request'[r].shown = request[r].shown
      BY <1>2, Effects
    <2> QED
      BY <2>1, <2>2, <2>3 DEF Loading, Saving, UnderWay
  <1>3. ASSUME NoAnswer(r) \/ FileFails(r) \/ ShowStep(r)
        PROVE  r \notin Loading' /\ r \notin Saving'
    <2>1. request'[r] = NoRequest
      BY <1>3, Effects
    <2>2. request'[r].stage = "none"
      BY <2>1 DEF NoRequest
    <2> QED
      BY <2>2 DEF Loading, Saving, UnderWay
  <1>4. ASSUME Truncate(r) \/ Write(r)
        PROVE  r \in Saving /\ r \in Saving' /\ r \notin Loading /\ r \notin Loading'
    <2>1. request[r] \in Save
      BY <1>4, Effects
    <2>2. request'[r] \in Save
      <3>1. request[r] \in Request /\ request[r].stage # "none"
        BY <2>1 DEF Types, Save
      <3>2. \/ request'[r] = [request[r] EXCEPT !.stage = "writing"]
            \/ request'[r] = [request[r] EXCEPT !.stage = "answered"]
        BY <1>4, Effects
      <3> QED
        BY <2>1, <3>1, <3>2, RequestSteps
    <2> QED
      BY <2>1, <2>2 DEF Save, Loading, Saving, UnderWay
  <1>5. ShowConfig(r) => r \in Loading /\ r \notin Saving
    <2>1. ShowConfig(r) => request[r] \in LoadAnswered /\ request[r].shown
      BY Effects
    <2> QED
      BY <2>1 DEF LoadAnswered, Loading, Saving, UnderWay
  <1>6. /\ Loading \cup Loading' \cup Saving \cup Saving' \subseteq Requests
        /\ \A q \in Requests \ {r} : request'[q] = request[q]
    BY Effects DEF Loading, Saving
  <1> QED
    BY <1>1, <1>2, <1>3, <1>4, <1>5, <1>6

\* A page that is opened waits for the new load only, and the saves go on.
LEMMA OpenEffects ==
    ASSUME Types, NEW p \in Pages, OpenPage(p)
    PROVE  /\ \A q \in Loading' \ {Free} :
                 q \in Loading /\ request'[q] = request[q] /\ request[q].page # p
           /\ Saving' = Saving
  <1>0. \A r \in Requests : request[r] \in Request
    BY DEF Types
  <1>1. ASSUME NEW q \in Requests \ {Free}
        PROVE  \/ request'[q] = request[q] /\ ~(UnderWay(q) /\ request[q].page = p)
               \/ /\ request'[q].stage = request[q].stage /\ request'[q].action = request[q].action
                  /\ ~request'[q].shown
    <2>1. request'[q] = IF UnderWay(q) /\ request[q].page = p
                        THEN [request[q] EXCEPT !.shown = FALSE] ELSE request[q]
      BY <1>1 DEF OpenPage
    <2>2. CASE UnderWay(q) /\ request[q].page = p
      <3>1. request[q] \in LoadSent \cup LoadAnswered \cup Save
        BY <1>0, <2>2, RequestKinds DEF UnderWay
      <3> QED
        BY <2>1, <2>2, <3>1 DEF LoadSent, LoadAnswered, Save
    <2> QED
      BY <2>1, <2>2
  <1>2. Free \in Requests /\ ~UnderWay(Free)
    BY FreeIsOne DEF OpenPage
  <1>3. request'[Free].action = "load"
    BY <1>2 DEF OpenPage
  <1>4. \A q \in Loading' \ {Free} :
           q \in Loading /\ request'[q] = request[q] /\ request[q].page # p
    BY <1>1 DEF Loading, UnderWay
  <1>5. Saving' = Saving
    BY <1>1, <1>2, <1>3 DEF Saving, UnderWay
  <1> QED
    BY <1>4, <1>5

\* A click on Save adds one save, of what the page shows.
LEMMA SaveEffects ==
    ASSUME Types, NEW p \in Pages, ClickSave(p)
    PROVE  /\ \A q \in Loading' : q \in Loading /\ request'[q] = request[q]
           /\ Saving' = Saving \cup {Free}
           /\ request'[Free].stage = "sent" /\ request'[Free].config = form[p]
  <1>1. \A q \in Requests \ {Free} : request'[q] = request[q]
    BY DEF ClickSave, Types
  <1>2. /\ Free \in Requests
        /\ request'[Free] = [stage |-> "sent", page |-> p, action |-> "save", shown |-> TRUE,
                             config |-> form[p]]
    BY FreeIsOne DEF ClickSave, Types
  <1>3. \A q \in Loading' : q \in Loading /\ request'[q] = request[q]
    BY <1>1, <1>2 DEF Loading, UnderWay
  <1>4. Saving' = Saving \cup {Free}
    BY <1>1, <1>2 DEF Saving, UnderWay
  <1> QED
    BY <1>2, <1>3, <1>4

\* An answer on its way belongs to the latest load of a page that still loads.
LEMMA NextLoads == Types /\ LoadsFit /\ [Next]_vars => LoadsFit'
  <1> SUFFICES ASSUME Types, LoadsFit, [Next]_vars
               PROVE  LoadsFit'
    OBVIOUS
  <1>0. \A r \in Requests : request[r] \in Request
    BY DEF Types
  <1>1. ASSUME Loading' \subseteq Loading, UNCHANGED page,
               \A r \in Loading' : request'[r].page = request[r].page,
               UNCHANGED <<file, config>> \/ file' # "missing"
        PROVE  LoadsFit'
    BY <1>1 DEF LoadsFit
  <1>2. ASSUME NEW r \in Requests, HandleStep(r) \/ ShowResult(r) \/ FileFails(r)
        PROVE  LoadsFit'
    <2>1. UNCHANGED page
      BY <1>2 DEF HandleStep, LoadConfig, NoAnswer, Truncate, Write, ShowResult, FileFails,
                  HandlerVars, pageVars
    <2>2. UNCHANGED <<file, config>> \/ file' # "missing"
      BY <1>2 DEF HandleStep, LoadConfig, NoAnswer, Truncate, Write, ShowResult, FileFails, fileVars
    <2>3. Loading' \subseteq Loading
      BY <1>2, Membership DEF HandleStep, ShowStep
    <2>4. ASSUME NEW q \in Loading'
          PROVE  request'[q].page = request[q].page
      <3>1. q \in Requests
        BY DEF Loading
      <3>2. CASE q # r
        BY <1>2, <3>1, <3>2, Effects DEF ShowStep
      <3>3. CASE q = r
        BY <1>2, <3>3, Effects, Membership DEF HandleStep, ShowStep
      <3> QED
        BY <3>2, <3>3
    <2> QED
      BY <1>1, <2>1, <2>2, <2>3, <2>4
  <1>3. ASSUME NEW r \in Requests, ShowConfig(r)
        PROVE  LoadsFit'
    <2>1. /\ page' = [page EXCEPT ![request[r].page] = "loaded"]
          /\ UNCHANGED <<file, config>>
      BY <1>3 DEF ShowConfig, Shows, fileVars
    <2>2. r \in Loading /\ Loading' = Loading \ {r}
      BY <1>3, Membership DEF ShowStep
    <2>3. \A q \in Loading' : request'[q] = request[q]
      <3>1. \A q \in Requests \ {r} : request'[q] = request[q]
        BY <1>3, Effects DEF ShowStep
      <3>2. Loading \subseteq Requests
        BY DEF Loading
      <3> QED
        BY <2>2, <3>1, <3>2
    <2>4. \A q \in Loading' : request[q].page # request[r].page
      BY <2>2 DEF LoadsFit
    <2>5. \A q \in Loading : request[q].page \in Pages
      BY <1>0, RequestKinds DEF Loading, UnderWay
    <2> QED
      BY <2>1, <2>2, <2>3, <2>4, <2>5 DEF LoadsFit, Types
  <1>4. ASSUME NEW p \in Pages, OpenPage(p)
        PROVE  LoadsFit'
    <2>1. /\ page' = [page EXCEPT ![p] = "loading"]
          /\ UNCHANGED <<file, config>>
      BY <1>4 DEF OpenPage, fileVars
    <2>2. /\ request'[Free].page = p /\ Free \in Requests
      BY <1>4, FreeIsOne DEF OpenPage
    <2>3. \A q \in Loading' \ {Free} :
             q \in Loading /\ request'[q] = request[q] /\ request[q].page # p
      BY <1>4, OpenEffects
    <2>4. \A q \in Loading : request[q].page \in Pages
      BY <1>0, RequestKinds DEF Loading, UnderWay
    <2> QED
      BY <2>1, <2>2, <2>3, <2>4 DEF LoadsFit, Types
  <1>5. ASSUME NEW p \in Pages, ClickSave(p)
        PROVE  LoadsFit'
    <2>1. UNCHANGED <<page, file, config>>
      BY <1>5 DEF ClickSave, pageVars, fileVars
    <2>2. \A q \in Loading' : q \in Loading /\ request'[q] = request[q]
      BY <1>5, SaveEffects
    <2> QED
      BY <1>1, <2>1, <2>2
  <1>6. ASSUME \/ \E p \in Pages : Type(p) \/ PickListenerType(p)
               \/ \E s \in Programs : Start(s)
               \/ UNCHANGED vars
        PROVE  LoadsFit'
    <2>1. UNCHANGED <<request, page, file, config>>
      BY <1>6 DEF Type, PickListenerType, Change, Start, vars, fileVars, pageVars
    <2> QED
      BY <2>1 DEF LoadsFit, Loading, UnderWay
  <1> QED
    BY <1>2, <1>3, <1>4, <1>5, <1>6 DEF Next, UserStep, ShowStep

LEMMA CalmBefore == Types /\ [Next]_vars /\ Calm' => Calm
  <1> SUFFICES ASSUME Types, [Next]_vars, Calm'
               PROVE  Calm
    OBVIOUS
  <1>1. ASSUME NEW r \in Requests, FileFails(r)
        PROVE  FALSE
    BY <1>1 DEF FileFails, Calm, Types
  <1>2. ASSUME NEW p \in Pages, UserStep(p)
        PROVE  Calm
    BY <1>2 DEF UserStep, OpenPage, Type, PickListenerType, Change, ClickSave, Calm
  <1>3. ASSUME \/ \E r \in Requests : HandleStep(r) \/ ShowStep(r)
               \/ \E s \in Programs : Start(s)
               \/ UNCHANGED vars
        PROVE  UNCHANGED <<careless, failures>>
    BY <1>3 DEF HandleStep, LoadConfig, NoAnswer, Truncate, Write, ShowStep, ShowConfig, Shows,
                ShowResult, HandlerVars, Start, vars, historyVars
  <1> QED
    BY <1>1, <1>2, <1>3 DEF Next, Calm

\* Forms, wishes and pages stay as they are in everything a handler does.
LEMMA FormsStay ==
    ASSUME FormsFit, UNCHANGED <<page, form, touched, wanted, outdated>>
    PROVE  FormsFit'
  BY DEF FormsFit

LEMMA LoadCalm ==
    ASSUME Types, LoadsFit, CalmParts, NEW r \in Requests, LoadConfig(r)
    PROVE  CalmParts'
  <1>1. UNCHANGED <<file, config, page, form, touched, wanted, outdated>>
    BY DEF LoadConfig, HandlerVars, fileVars, pageVars
  <1>2. /\ Saving' = Saving /\ Loading' = Loading
        /\ \A q \in Saving : request'[q] = request[q]
        /\ \A q \in Loading \ {r} : request'[q] = request[q]
    BY Membership DEF HandleStep
  <1>3. SavesFit'
    BY <1>1, <1>2 DEF CalmParts, SavesFit
  <1>4. ASSUME r \in Loading, request[r].page \notin outdated
        PROVE  Saving = {} /\ request'[r].json /\ request'[r].config = config
    <2>1. Saving = {} /\ file \in {"missing", "whole"}
      BY <1>4 DEF CalmParts, AnswersFit, SavesFit
    <2>2. /\ request'[r].json = (file \in {"missing", "whole"})
          /\ request'[r].config = IF file = "whole" THEN config ELSE EmptyJson
      BY Effects DEF HandleStep
    <2> QED
      BY <2>1, <2>2 DEF LoadsFit
  <1>5. request'[r].page = request[r].page
    BY Effects DEF HandleStep
  <1>6. AnswersFit'
    BY <1>1, <1>2, <1>4, <1>5 DEF CalmParts, AnswersFit
  <1> QED
    BY <1>1, <1>3, <1>6, FormsStay DEF CalmParts

LEMMA NoAnswerCalm ==
    ASSUME Types, CalmParts, NEW r \in Requests, NoAnswer(r)
    PROVE  CalmParts'
  <1>1. UNCHANGED <<file, config, page, form, touched, wanted, outdated>>
    BY DEF NoAnswer, HandlerVars, fileVars, pageVars
  <1>2. r \notin Saving
    BY DEF NoAnswer, Arrived, Saving
  <1>3. /\ Saving' = Saving /\ Loading' \subseteq Loading
        /\ \A q \in Saving \cup Loading' : request'[q] = request[q]
    BY <1>2, Membership DEF HandleStep
  <1>4. SavesFit' /\ AnswersFit'
    BY <1>1, <1>3 DEF CalmParts, SavesFit, AnswersFit
  <1> QED
    BY <1>1, <1>4, FormsStay DEF CalmParts

LEMMA TruncateCalm ==
    ASSUME Types, CalmParts, NEW r \in Requests, Truncate(r)
    PROVE  CalmParts'
  <1>1. file' = "empty" /\ UNCHANGED <<page, form, touched, wanted, outdated>>
    BY DEF Truncate, HandlerVars, pageVars
  <1>2. r \in Saving /\ r \in Saving' /\ Saving' = Saving /\ Loading' = Loading
    BY Membership DEF HandleStep
  <1>3. Saving = {r}
    BY <1>2 DEF CalmParts, SavesFit
  <1>4. request'[r].stage = "writing" /\ request'[r].config = request[r].config
    <2>1. request[r] \in Save /\ request'[r] = [request[r] EXCEPT !.stage = "writing"]
      BY Effects DEF HandleStep
    <2> QED
      BY <2>1 DEF Save
  <1>5. SavesFit'
    BY <1>1, <1>2, <1>3, <1>4 DEF CalmParts, SavesFit
  <1>6. \A q \in Loading : q # r /\ request'[q] = request[q]
    BY Membership DEF HandleStep
  <1>7. AnswersFit'
    BY <1>1, <1>2, <1>3, <1>6 DEF CalmParts, AnswersFit
  <1> QED
    BY <1>1, <1>5, <1>7, FormsStay DEF CalmParts

LEMMA WriteCalm ==
    ASSUME Types, CalmParts, NEW r \in Requests, Write(r)
    PROVE  CalmParts'
  <1>1. UNCHANGED <<page, form, touched, wanted, outdated>>
    BY DEF Write, HandlerVars, pageVars
  <1>2. r \in Saving /\ r \in Saving' /\ Saving' = Saving /\ Loading' = Loading
    BY Membership DEF HandleStep
  <1>3. Saving = {r}
    BY <1>2 DEF CalmParts, SavesFit
  <1>4. request[r].stage = "writing" /\ request'[r].stage = "answered"
        /\ request'[r].config = request[r].config
    <2>1. /\ request[r] \in Save /\ request[r].stage = "writing"
          /\ request'[r] = [request[r] EXCEPT !.stage = "answered"]
      BY Effects DEF HandleStep
    <2> QED
      BY <2>1 DEF Save
  <1>5. file = "empty" /\ request[r].config = wanted
    BY <1>2, <1>4 DEF CalmParts, SavesFit
  <1>6. file' = "whole" /\ config' = wanted
    BY <1>5 DEF Write
  <1>7. SavesFit'
    BY <1>1, <1>2, <1>3, <1>4, <1>5, <1>6 DEF SavesFit
  <1>8. \A q \in Loading : q # r /\ request'[q] = request[q]
    BY Membership DEF HandleStep
  <1>9. AnswersFit'
    BY <1>1, <1>2, <1>3, <1>8 DEF CalmParts, AnswersFit
  <1> QED
    BY <1>1, <1>7, <1>9, FormsStay DEF CalmParts

LEMMA ShowConfigCalm ==
    ASSUME Types, CalmParts, NEW r \in Requests, ShowConfig(r)
    PROVE  CalmParts'
  <1>1. r \in Loading /\ r \notin Saving
    BY Membership DEF ShowStep
  <1>2. /\ Saving' = Saving /\ Loading' = Loading \ {r}
        /\ \A q \in Saving \cup Loading' : request'[q] = request[q]
    BY <1>1, Membership DEF ShowStep
  <1>3. UNCHANGED <<file, config, wanted, outdated>>
    BY DEF ShowConfig, Shows, fileVars
  <1>4. SavesFit' /\ AnswersFit'
    BY <1>2, <1>3 DEF CalmParts, SavesFit, AnswersFit
  <1>5. PICK p \in Pages : p = request[r].page
    <2>1. request[r] \in LoadAnswered
      BY Effects DEF ShowStep
    <2> QED
      BY <2>1 DEF LoadAnswered
  <1>6. p \notin outdated => form'[p] = wanted
    <2> SUFFICES ASSUME p \notin outdated
                 PROVE  form'[p] = wanted
      OBVIOUS
    <2>1. request[r].stage = "answered"
      BY DEF ShowConfig, Shows, Answered
    <2>2. Saving = {} /\ request[r].json /\ request[r].config = config
      BY <1>1, <1>5, <2>1 DEF CalmParts, AnswersFit
    <2>3. config = wanted
      BY <2>2 DEF CalmParts, SavesFit
    <2>4. form' = [form EXCEPT ![p] = request[r].config]
      BY <1>5, <2>2 DEF ShowConfig, Shows
    <2> QED
      BY <2>2, <2>3, <2>4 DEF Types
  <1>7. \A q \in Pages \ {p} : /\ page'[q] = page[q] /\ form'[q] = form[q]
                               /\ touched'[q] = touched[q]
    BY <1>5 DEF ShowConfig, Shows, Types
  <1>8. FormsFit'
    BY <1>3, <1>6, <1>7 DEF CalmParts, FormsFit
  <1> QED
    BY <1>4, <1>8 DEF CalmParts

LEMMA ShowResultCalm ==
    ASSUME Types, CalmParts, NEW r \in Requests, ShowResult(r)
    PROVE  CalmParts'
  <1>1. UNCHANGED <<file, config, page, form, touched, wanted, outdated>>
    BY DEF ShowResult, HandlerVars, fileVars, pageVars
  <1>2. /\ Saving' = Saving \ {r} /\ Loading' \subseteq Loading
        /\ \A q \in Saving' \cup Loading' : request'[q] = request[q]
    BY Membership DEF ShowStep
  <1>3. r \in Saving => request[r].stage = "answered"
    BY DEF ShowResult, Answered, Saving
  <1>4. SavesFit'
    BY <1>1, <1>2, <1>3 DEF CalmParts, SavesFit
  <1>5. AnswersFit'
    BY <1>1, <1>2 DEF CalmParts, AnswersFit
  <1> QED
    BY <1>1, <1>4, <1>5, FormsStay DEF CalmParts

LEMMA OpenCalm ==
    ASSUME Types, CalmParts, NEW p \in Pages, OpenPage(p), Calm'
    PROVE  CalmParts'
  <1>1. Saving = {} /\ Saving' = {}
    BY OpenEffects DEF OpenPage, Calm
  <1>2. /\ UNCHANGED <<file, config, wanted>> /\ outdated' = outdated \ {p}
        /\ page' = [page EXCEPT ![p] = "loading"]
        /\ form' = [form EXCEPT ![p] = BlankForm] /\ touched' = [touched EXCEPT ![p] = {}]
    BY DEF OpenPage, fileVars
  <1>3. SavesFit'
    BY <1>1, <1>2 DEF CalmParts, SavesFit
  <1>4. request'[Free].stage = "sent"
    BY FreeIsOne DEF OpenPage
  <1>5. AnswersFit'
    <2> SUFFICES ASSUME NEW q \in Loading', request'[q].page \notin outdated'
                 PROVE  request'[q].stage = "answered" =>
                           request'[q].json /\ request'[q].config = config
      BY <1>1, <1>2 DEF AnswersFit
    <2>1. CASE q = Free
      BY <1>4, <2>1
    <2>2. CASE q # Free
      <3>1. q \in Loading /\ request'[q] = request[q] /\ request[q].page # p
        BY <2>2, OpenEffects
      <3> QED
        BY <1>2, <3>1 DEF CalmParts, AnswersFit
    <2> QED
      BY <2>1, <2>2
  <1>6. FormsFit'
    BY <1>2 DEF CalmParts, FormsFit, Types
  <1> QED
    BY <1>3, <1>5, <1>6 DEF CalmParts

LEMMA ChangeCalm ==
    ASSUME Types, CalmParts, NEW p \in Pages,
           NEW setting \in Setting, NEW value, Change(p, setting, value)
    PROVE  CalmParts'
  <1>1. /\ UNCHANGED <<file, config, page, request, wanted, outdated>>
        /\ form' = [form EXCEPT ![p] = [form[p] EXCEPT ![setting] = value]]
        /\ touched' = [touched EXCEPT ![p] = touched[p] \cup {setting}]
    BY DEF Change, fileVars, Types
  <1>2. Saving' = Saving /\ Loading' = Loading
    BY <1>1 DEF Saving, Loading, UnderWay
  <1>3. SavesFit' /\ AnswersFit'
    BY <1>1, <1>2 DEF CalmParts, SavesFit, AnswersFit
  <1>4. \A s \in Setting \ {setting} : form'[p][s] = form[p][s]
    BY <1>1 DEF Types, Config, Setting
  <1>5. \A q \in Pages \ {p} : form'[q] = form[q] /\ touched'[q] = touched[q]
    BY <1>1 DEF Types
  <1>6. touched'[p] = touched[p] \cup {setting}
    BY <1>1 DEF Types
  <1>7. FormsFit'
    BY <1>1, <1>4, <1>5, <1>6 DEF CalmParts, FormsFit
  <1> QED
    BY <1>3, <1>7 DEF CalmParts

LEMMA SaveCalm ==
    ASSUME Types, LoadsFit, CalmParts, NEW p \in Pages, ClickSave(p), Calm'
    PROVE  CalmParts'
  <1>1. page[p] = "loaded" /\ p \notin outdated /\ Saving = {}
    BY DEF ClickSave, Calm, Types
  <1>2. /\ UNCHANGED <<file, config, page, form>>
        /\ outdated' = outdated \cup (Pages \ {p})
    BY DEF ClickSave, fileVars, pageVars
  <1>3. wanted' = form[p]
    <2>1. \A s \in Setting \ touched[p] : form[p][s] = wanted[s]
      BY <1>1 DEF CalmParts, FormsFit
    <2>2. form[p] \in Config /\ wanted \in Config
      BY DEF Types
    <2> QED
      BY <2>1, <2>2, Mixture DEF ClickSave
  <1>4. Saving' = {Free} /\ request'[Free].stage = "sent" /\ request'[Free].config = form[p]
    BY <1>1, SaveEffects
  <1>5. file \in {"missing", "whole"}
    BY <1>1 DEF CalmParts, SavesFit
  <1>6. SavesFit'
    BY <1>2, <1>3, <1>4, <1>5 DEF SavesFit
  <1>7. AnswersFit'
    <2> SUFFICES ASSUME NEW q \in Loading'
                 PROVE  request'[q].page \in outdated'
      BY DEF AnswersFit
    <2>1. q \in Loading /\ request'[q] = request[q]
      BY SaveEffects
    <2>2. page[request[q].page] = "loading"
      BY <2>1 DEF LoadsFit
    <2>3. request[q].page \in Pages
      BY <2>1, RequestKinds DEF Types, Loading, UnderWay
    <2> QED
      BY <1>1, <1>2, <2>1, <2>2, <2>3
  <1>8. FormsFit'
    BY <1>2, <1>3 DEF FormsFit
  <1> QED
    BY <1>6, <1>7, <1>8 DEF CalmParts

LEMMA InitCalm == Init => LoadsFit /\ CalmInv
  <1> SUFFICES ASSUME Init
               PROVE  LoadsFit /\ CalmParts
    BY DEF CalmInv
  <1>1. Loading = {} /\ Saving = {}
    BY DEF Init, Loading, Saving, UnderWay, NoRequest
  <1>2. /\ file \in {"missing", "whole"} /\ config = wanted
        /\ file = "missing" => config = EmptyJson
        /\ \A p \in Pages : page[p] = "closed"
    BY DEF Init
  <1> QED
    BY <1>1, <1>2 DEF LoadsFit, CalmParts, SavesFit, AnswersFit, FormsFit

LEMMA NextCalm == Types /\ LoadsFit /\ CalmInv /\ [Next]_vars => CalmInv'
  <1> SUFFICES ASSUME Types, LoadsFit, CalmInv, [Next]_vars, Calm'
               PROVE  CalmParts'
    BY DEF CalmInv
  <1>1. CalmParts
    BY CalmBefore DEF CalmInv
  <1>2. ASSUME NEW p \in Pages, UserStep(p)
        PROVE  CalmParts'
    <2>1. CASE Type(p) \/ PickListenerType(p)
      BY <1>1, <2>1, ChangeCalm DEF Type, PickListenerType, Setting
    <2> QED
      BY <1>1, <1>2, <2>1, OpenCalm, SaveCalm DEF UserStep
  <1>3. ASSUME NEW r \in Requests, HandleStep(r) \/ ShowStep(r)
        PROVE  CalmParts'
    BY <1>1, <1>3, LoadCalm, NoAnswerCalm, TruncateCalm, WriteCalm, ShowConfigCalm, ShowResultCalm
       DEF HandleStep, ShowStep
  <1>4. ASSUME NEW r \in Requests, FileFails(r)
        PROVE  FALSE
    BY <1>4 DEF FileFails, Calm, Types
  <1>5. CASE (\E s \in Programs : Start(s)) \/ UNCHANGED vars
    <2>1. UNCHANGED <<file, config, page, form, request, touched, wanted, outdated>>
      BY <1>5 DEF Start, vars, fileVars, pageVars, historyVars
    <2>2. Saving' = Saving /\ Loading' = Loading
      BY <2>1 DEF Saving, Loading, UnderWay
    <2>3. SavesFit' /\ AnswersFit'
      BY <1>1, <2>1, <2>2 DEF CalmParts, SavesFit, AnswersFit
    <2> QED
      BY <1>1, <2>1, <2>3, FormsStay DEF CalmParts
  <1> QED
    BY <1>2, <1>3, <1>4, <1>5 DEF Next

ConfigurationInv == Types /\ SavedInv /\ LoadsFit /\ CalmInv

LEMMA ConfigurationInvariance == Spec => []ConfigurationInv
  <1>1. Init => ConfigurationInv
    BY InitTypes, InitSaved, InitCalm DEF ConfigurationInv
  <1>2. ConfigurationInv /\ [Next]_vars => ConfigurationInv'
    BY NextTypes, NextSaved, NextLoads, NextCalm DEF ConfigurationInv
  <1> QED
    BY <1>1, <1>2, PTL DEF Spec

\* Users who wait for answers and save no outdated page lose no setting, also not one
\* that they never touched: what the file says is what they last wanted.
THEOREM ChangesSurvive == Spec => []NoChangeLost
  <1>1. ConfigurationInv => NoChangeLost
    BY DEF ConfigurationInv, CalmInv, Calm, CalmParts, SavesFit, NoChangeLost, Types
  <1> QED
    BY <1>1, ConfigurationInvariance, PTL

\* For the same users a loaded page shows the file, but for their own changes to it.
THEOREM FormsShowFile == Spec => []FormFits
  <1>1. ConfigurationInv => FormFits
    <2> SUFFICES ASSUME ConfigurationInv, ~careless, ~(failures > 0), Saving = {},
                        NEW p \in Pages, page[p] = "loaded", p \notin outdated,
                        NEW s \in Setting \ touched[p]
                 PROVE  form[p][s] = config[s]
      BY DEF FormFits
    <2>1. CalmParts
      BY DEF ConfigurationInv, CalmInv, Calm, Types
    <2> QED
      BY <2>1 DEF CalmParts, SavesFit, FormsFit
  <1> QED
    BY <1>1, ConfigurationInvariance, PTL

-----------------------------------------------------------------------------
(* What a page that loads is waiting for. *)

\* Nothing failed so far, and no answer can break off.
Readable == failures = 0 /\ \A c \in saved : c.input \notin Wide

\* Unless the file failed once, or somebody saved a character of more than one byte,
\* a page that loads has asked for the configuration, and its request or the answer
\* to it, which the page will show, is on the way.
LoadingIsForAnswer ==
    \A p \in Pages : page[p] = "loading" =>
        failures > 0 \/ (\E c \in saved : c.input \in Wide) \/ \E r \in Loading : request[r].page = p

\* Once the file failed or a wide character was saved, that stays so.
LEMMA ReadableBefore == Types /\ [Next]_vars /\ Readable' => Readable
  <1> SUFFICES ASSUME Types, [Next]_vars, Readable'
               PROVE  Readable
    OBVIOUS
  <1>1. ASSUME NEW r \in Requests, FileFails(r)
        PROVE  FALSE
    BY <1>1 DEF FileFails, Readable, Types
  <1>2. ASSUME NEW r \in Requests, HandleStep(r) \/ ShowStep(r)
        PROVE  failures' = failures /\ saved \subseteq saved'
    BY <1>2 DEF HandleStep, LoadConfig, NoAnswer, Truncate, Write, ShowStep, ShowConfig, Shows,
                ShowResult, HandlerVars
  <1>3. ASSUME \/ \E p \in Pages : UserStep(p)
               \/ \E s \in Programs : Start(s)
               \/ UNCHANGED vars
        PROVE  failures' = failures /\ saved' = saved
    BY <1>3 DEF UserStep, OpenPage, Type, PickListenerType, Change, ClickSave, Start, vars, historyVars
  <1> QED
    BY <1>1, <1>2, <1>3 DEF Next, Readable

LEMMA NextAsked == Types /\ SavedInv /\ LoadingIsForAnswer /\ [Next]_vars => LoadingIsForAnswer'
  <1> SUFFICES ASSUME Types, SavedInv, LoadingIsForAnswer, [Next]_vars, Readable',
                      NEW p \in Pages, page'[p] = "loading"
               PROVE  \E r \in Loading' : request'[r].page = p
    <2>1. ASSUME Types, [Next]_vars
          PROVE  failures' = 0 \/ failures' > 0
      <3>1. Types'
        BY <2>1, NextTypes
      <3> QED
        BY <3>1, Bounds DEF Types
    <2> QED
      BY <2>1, Zenon DEF LoadingIsForAnswer, Readable
  <1>1. Readable
    BY ReadableBefore
  <1>2. ASSUME page[p] = "loading"
        PROVE  \E r \in Loading : request[r].page = p
    BY <1>1, <1>2 DEF LoadingIsForAnswer, Readable
  <1>3. ASSUME NEW r \in Requests, HandleStep(r)
        PROVE  \E q \in Loading' : request'[q].page = p
    <2>1. UNCHANGED page
      BY <1>3 DEF HandleStep, LoadConfig, NoAnswer, Truncate, Write, HandlerVars, pageVars
    <2>2. PICK q \in Loading : request[q].page = p
      BY <1>2, <2>1
    <2>3. ~NoAnswer(r)
      BY <1>1 DEF NoAnswer, MayBreak, Breaks, SavedInv, Readable
    <2>4. q \in Loading' /\ request'[q].page = request[q].page
      <3>1. CASE q = r
        <4>1. LoadConfig(r)
          BY <1>3, <2>3, <3>1, Membership DEF HandleStep
        <4>2. r \in Loading'
          BY <1>3, <3>1, <4>1, Membership
        <4>3. request'[r].page = request[r].page
          BY <1>3, <4>1, Effects
        <4> QED
          BY <3>1, <4>2, <4>3
      <3>2. CASE q # r
        <4>1. Loading' \ {r} = Loading \ {r} /\ \A s \in Requests \ {r} : request'[s] = request[s]
          BY <1>3, Membership
        <4>2. q \in Loading'
          BY <3>2, <4>1
        <4> QED
          BY <3>2, <4>1, <4>2 DEF Loading
      <3> QED
        BY <3>1, <3>2
    <2> QED
      BY <2>2, <2>4
  <1>4. ASSUME NEW r \in Requests, ShowStep(r)
        PROVE  \E q \in Loading' : request'[q].page = p
    <2>1. page[p] = "loading" /\ (r \in Loading => request[r].page # p)
      <3>1. CASE ShowConfig(r)
        <4>1. page' = [page EXCEPT ![request[r].page] = "loaded"]
          BY <3>1 DEF ShowConfig, Shows
        <4> QED
          BY <4>1 DEF Types
      <3>2. CASE ShowResult(r)
        BY <3>2 DEF ShowResult, HandlerVars, pageVars, Loading, Answered
      <3> QED
        BY <1>4, <3>1, <3>2 DEF ShowStep
    <2>2. PICK q \in Loading : request[q].page = p
      BY <1>2, <2>1
    <2>3. q # r /\ q \in Requests
      BY <2>1, <2>2 DEF Loading
    <2>4. q \in Loading' /\ request'[q] = request[q]
      BY <1>4, <2>3, Membership
    <2> QED
      BY <2>2, <2>4
  <1>5. ASSUME NEW o \in Pages, OpenPage(o)
        PROVE  \E q \in Loading' : request'[q].page = p
    <2>1. /\ page' = [page EXCEPT ![o] = "loading"] /\ CanSend
          /\ request' = [r \in Requests |->
                IF r = Free THEN [stage |-> "sent", page |-> o, action |-> "load", shown |-> TRUE]
                ELSE IF UnderWay(r) /\ request[r].page = o THEN [request[r] EXCEPT !.shown = FALSE]
                ELSE request[r]]
      BY <1>5 DEF OpenPage
    <2>2. CASE p = o
      <3>1. Free \in Requests
        BY <2>1, FreeIsOne
      <3>2. Free \in Loading' /\ request'[Free].page = o
        BY <2>1, <3>1 DEF Loading, UnderWay
      <3> QED
        BY <2>2, <3>2
    <2>3. CASE p # o
      <3>1. page[p] = "loading"
        BY <2>1, <2>3 DEF Types
      <3>2. PICK q \in Loading : request[q].page = p
        BY <1>2, <3>1
      <3>3. q \in Requests /\ q # Free
        BY <2>1, <3>2, FreeIsOne DEF Loading
      <3>4. request'[q] = request[q]
        BY <2>1, <2>3, <3>2, <3>3
      <3> QED
        BY <3>2, <3>4 DEF Loading, UnderWay
    <2> QED
      BY <2>2, <2>3
  <1>6. ASSUME NEW o \in Pages, ClickSave(o)
        PROVE  \E q \in Loading' : request'[q].page = p
    <2>1. UNCHANGED page /\ \A q \in Requests \ {Free} : request'[q] = request[q]
      BY <1>6 DEF ClickSave, pageVars, Types
    <2>2. PICK q \in Loading : request[q].page = p
      BY <1>2, <2>1
    <2>3. q \in Requests /\ q # Free
      BY <1>6, <2>2, FreeIsOne DEF Loading, ClickSave
    <2> QED
      BY <2>1, <2>2, <2>3 DEF Loading, UnderWay
  <1>7. ASSUME NEW r \in Requests, FileFails(r)
        PROVE  FALSE
    BY <1>7 DEF FileFails, Readable, Types
  <1>8. ASSUME \/ \E o \in Pages : Type(o) \/ PickListenerType(o)
               \/ \E s \in Programs : Start(s)
               \/ UNCHANGED vars
        PROVE  \E q \in Loading' : request'[q].page = p
    <2>1. UNCHANGED <<page, request>>
      BY <1>8 DEF Type, PickListenerType, Change, Start, vars, pageVars
    <2> QED
      BY <1>2, <2>1 DEF Loading, UnderWay
  <1> QED
    BY <1>3, <1>4, <1>5, <1>6, <1>7, <1>8 DEF Next, UserStep

\* No page loads for ever because nobody answers it any more: every way out of
\* loadConfig that is not an answer has a failure or a wide character behind it.
THEOREM LoadingIsOwed == Spec => []LoadingIsForAnswer
  <1>1. Init => LoadingIsForAnswer
    BY DEF Init, LoadingIsForAnswer
  <1> QED
    BY <1>1, ConfigurationInvariance, NextAsked, PTL DEF Spec, ConfigurationInv
=============================================================================
