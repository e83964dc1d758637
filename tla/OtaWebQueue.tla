----------------------------- MODULE OtaWebQueue ----------------------------
(***************************************************************************)
(* The web queue of the OTA master, server/src/web_queue.cpp, with its     *)
(* hawkbit half, server/src/hawkbit_queue.cpp, and the backend it polls.   *)
(*                                                                         *)
(* The queue has a thread of its own, and a worker thread that downloads,  *)
(* verifies or distributes the files of an upgrade.  The handlers read the *)
(* server's upgrade and cancel id when they run, which is later than the   *)
(* request was posted: they are parameters of the actions.  What is posted *)
(* to the server is the value of `answers' after the step.                 *)
(*                                                                         *)
(* Handlers wait with the queue blocked, and the others see what they have *)
(* done so far: a poll waits for the backend; the requests that concern    *)
(* the worker set the state and then wait for the worker at hand to end    *)
(* (stopThread); REQ_DISTRIBUTE waits for its own worker as well.  Left    *)
(* out: transfers, progress, the `active' flag, and RES_FEEDBACK_DONE,     *)
(* which the server ignores.                                               *)
(***************************************************************************)
EXTENDS OtaTypes

CONSTANTS
  Id,         \* the ids of upgrades
  NoId,       \* the empty id
  Upgrades,   \* the upgrades the backend may offer
  NoUpgrade,  \* the upgrade of an idle server: no id and no file
  MaxOffers,  \* a bound: the backend changes its mind, or fails to answer, so often
  MaxEvents   \* a bound: nobody asks, and no timer polls, with so many waiting

ASSUME WebAssumption ==
  /\ NoId \notin Id
  /\ NoUpgrade \notin Upgrades
  /\ NoUpgrade.id = NoId
  /\ \A u \in Upgrades : u.id \in Id
  /\ MaxOffers \in Nat
  /\ MaxEvents \in Nat

WebState == {"WEB_IDLE", "WEB_DOWNLOAD", "WEB_VERIFY", "WEB_DISTRIBUTE"}

\* The worker: "ending" has posted its result and not yet called back.
Work == {"none", "download", "verify", "distribute", "ending"}

\* The requests that stop the worker: the state they set, and the worker they start.
StateOf ==
  [ REQ_DOWNLOAD |-> "WEB_DOWNLOAD", REQ_VERIFY |-> "WEB_VERIFY",
    REQ_DISTRIBUTE |-> "WEB_DISTRIBUTE", REQ_STOP |-> "WEB_IDLE" ]
WorkOf ==
  [REQ_DOWNLOAD |-> "download", REQ_VERIFY |-> "verify", REQ_DISTRIBUTE |-> "distribute"]

VARIABLES
  requests,   \* the web events to be handled
  webState,   \* m_hpr->state
  hasInited,  \* m_hpr->hasInited
  work,       \* what m_hpr->workThread does
  workId,     \* the upgrade whose files it was given
  handle,     \* m_hpr->distributeHandle: the files are being served
  blocked,    \* the handler under way: "no", a "poll", a request in stopThread(), or
              \* REQ_DISTRIBUTE that waits for its port ("listen") or has seen it ("serving")
  seen,       \* what the poll has read
  stored,     \* the upgrades whose files are complete on the disk
  backend,    \* hawkbit: the upgrade it wants, and whether it wants it cancelled
  offers,     \* how often the backend changed its mind
  answers     \* events posted to the server by the last step

workVars == <<work, workId, handle, webState>>
pollVars == <<blocked, seen>>
backendVars == <<backend, offers>>
webVars ==
  <<requests, hasInited, workVars, pollVars, stored, backendVars, answers>>

\* What a backend may want, and one that wants nothing.
Wanted == [upgrade : Upgrades \cup {NoUpgrade}, cancel : BOOLEAN]
Nothing == [upgrade |-> NoUpgrade, cancel |-> FALSE]

Reply(event) == [event |-> event]

-----------------------------------------------------------------------------
(* The worker. *)

\* What the worker may post when it ends by itself: the files of an upgrade can
\* be verified only when they are complete, and an upgrade without files fails.
Outcomes ==
  CASE work = "download" ->
         {"RES_ERROR"} \cup IF workId # NoId THEN {"RES_DOWNLOAD_DONE"} ELSE {}
    [] work = "verify" ->
         {"RES_ERROR"} \cup IF workId \in stored THEN {"RES_VERIFY_DONE"} ELSE {}
    [] work = "distribute" ->
         {"RES_ERROR"} \cup IF handle THEN {"RES_DISTRUBUTE_DONE"} ELSE {}
    [] OTHER -> {}

StoredAfter(outcome) ==
  IF outcome = "RES_DOWNLOAD_DONE" THEN stored \cup {workId} ELSE stored

\* The worker ends: download, verify or distribute.  Mutant: a failure is
\* not told.
WorkEndsQuietly ==
  \E outcome \in Outcomes :
    /\ work' = "ending" /\ handle' = FALSE
    /\ stored' = StoredAfter(outcome)
    /\ answers' = IF outcome = "RES_ERROR" THEN <<>> ELSE << Reply(outcome) >>
    /\ UNCHANGED <<requests, webState, hasInited, workId, pollVars, backendVars>>
WorkEnds ==
  \E outcome \in Outcomes :
    /\ work' = "ending" /\ handle' = FALSE
    /\ stored' = StoredAfter(outcome)
    /\ answers' = << Reply(outcome) >>
    /\ UNCHANGED <<requests, webState, hasInited, workId, pollVars, backendVars>>

\* The callback of the thread's end (setEndCb).  Mutant: it forgets the state.
EndCbKeepsState ==
  /\ work = "ending"
  /\ work' = "none"
  /\ webState' = webState
  /\ answers' = <<>>
  /\ UNCHANGED <<requests, hasInited, workId, handle, pollVars, stored, backendVars>>
EndCb ==
  /\ work = "ending"
  /\ work' = "none"
  /\ webState' = "WEB_IDLE"
  /\ answers' = <<>>
  /\ UNCHANGED <<requests, hasInited, workId, handle, pollVars, stored, backendVars>>

\* Distribution opens its port.
Listen ==
  /\ work = "distribute" /\ ~handle /\ workId # NoId
  /\ handle' = TRUE
  /\ answers' = <<>>
  /\ UNCHANGED <<requests, webState, hasInited, work, workId, pollVars, stored, backendVars>>

\* stopThread(): the handler waits for the worker at hand, which sees that it is to
\* end and says nothing.  It may have been ready just before (WorkEnds), and its
\* callback resets the state that the handler has set (EndCb).
StopThread ==
  /\ blocked \in DOMAIN StateOf
  /\ work \in {"download", "verify", "distribute"}
  /\ work' = "ending" /\ handle' = FALSE
  /\ answers' = <<>>
  /\ UNCHANGED <<requests, webState, hasInited, workId, pollVars, stored, backendVars>>

-----------------------------------------------------------------------------
(* The handlers; each takes the first request, when none is under way. *)

Takes(event) ==
  /\ blocked = "no"
  /\ requests # <<>> /\ Head(requests).event = event
  /\ requests' = Tail(requests)

\* The backend answers with an error page: the status of an answer is not looked at.
ErrorPage == offers < MaxOffers /\ offers' = offers + 1

\* A poll reads what the backend wants, or an error page, which looks like a backend
\* that wants nothing, or it fails; the answer is looked at when it has come (PollEnds).
Poll ==
  \/ blocked' = "poll" /\ seen' = backend /\ offers' = offers
  \/ blocked' = "poll" /\ seen' = Nothing /\ ErrorPage
  \/ UNCHANGED <<pollVars, offers>>

\* REQ_INIT.
ReqInit ==
  /\ Takes("REQ_INIT")
  /\ IF hasInited THEN UNCHANGED <<pollVars, offers>> /\ answers' = <<>>
     ELSE Poll /\ answers' = << Reply("RES_INIT") >>
  /\ hasInited' = TRUE
  /\ UNCHANGED <<workVars, stored, backend>>

\* REQ_CHECK, and the timer.
ReqCheck ==
  /\ Takes("REQ_CHECK")
  /\ Poll
  /\ answers' = <<>>
  /\ UNCHANGED <<hasInited, workVars, stored, backend>>

\* Mutant: the timer runs before the initialisation.
CheckUpgradeAtOnce ==
  /\ blocked = "no"
  /\ Poll
  /\ answers' = <<>>
  /\ UNCHANGED <<requests, hasInited, workVars, stored, backend>>
CheckUpgrade ==
  /\ hasInited /\ blocked = "no"
  /\ Poll
  /\ answers' = <<>>
  /\ UNCHANGED <<requests, hasInited, workVars, stored, backend>>

\* The end of detect(): postIdle, postUpgrade and postCancel, which compare with
\* the upgrade and the cancel id the server has by then.
PollEnds(upgrade, cancelId) ==
  /\ blocked = "poll"
  /\ blocked' = "no" /\ seen' = Nothing
  /\ answers' =
       CASE seen.upgrade = NoUpgrade -> << Reply("REQ_IDLE") >>
         [] seen.upgrade # NoUpgrade /\ seen.cancel ->
              IF cancelId = seen.upgrade.id THEN <<>>
              ELSE << [event |-> "REQ_CANCEL", id |-> seen.upgrade.id] >>
         [] OTHER ->
              IF upgrade = seen.upgrade THEN <<>>
              ELSE << [event |-> "REQ_UPGRADE", upgrade |-> seen.upgrade] >>
  /\ UNCHANGED <<requests, hasInited, workVars, stored, backendVars>>

\* The requests that concern the worker: the state is set, and can be read, before
\* the worker at hand is stopped.
SetsState(event) ==
  /\ Takes(event)
  /\ webState' = StateOf[event]
  /\ blocked' = event /\ seen' = seen
  /\ answers' = <<>>
  /\ UNCHANGED <<hasInited, work, workId, handle, stored, backendVars>>

ReqDownload == SetsState("REQ_DOWNLOAD")
ReqVerify == SetsState("REQ_VERIFY")
ReqDistribute == SetsState("REQ_DISTRIBUTE")
ReqStop == SetsState("REQ_STOP")

\* The worker at hand has ended: the next one starts on the server's upgrade.
StartThread(upgrade) ==
  /\ blocked \in DOMAIN WorkOf /\ work = "none"
  /\ work' = WorkOf[blocked] /\ workId' = upgrade.id
  /\ blocked' = IF blocked = "REQ_DISTRIBUTE" THEN "listen" ELSE "no"
  /\ answers' = <<>>
  /\ UNCHANGED <<requests, webState, hasInited, handle, seen, stored, backendVars>>

\* What every end of a handler leaves as it is.
Returns ==
  /\ blocked' = "no" /\ seen' = seen
  /\ UNCHANGED <<requests, hasInited, workVars, stored, backendVars>>

\* Nothing is started after REQ_STOP.
Stopped == blocked = "REQ_STOP" /\ work = "none" /\ answers' = <<>> /\ Returns

\* REQ_DISTRIBUTE has seen that the files are served, and waits once more.
SeesHandle ==
  /\ blocked = "listen" /\ handle
  /\ blocked' = "serving" /\ seen' = seen
  /\ answers' = <<>>
  /\ UNCHANGED <<requests, hasInited, workVars, stored, backendVars>>

\* The clients may pull the files, which may have failed meanwhile.
CanPull == blocked = "serving" /\ answers' = << Reply("REQ_PULL") >> /\ Returns

\* REQ_DISTRIBUTE has seen that the worker has ended.  Mutant: it looks at the files
\* only.
CannotPullYet == blocked = "listen" /\ handle /\ answers' = <<>> /\ Returns
CannotPull == blocked = "listen" /\ work = "none" /\ answers' = <<>> /\ Returns

\* What the backend makes of feedback e: a closed action is over, and so is the
\* upgrade that was cancelled; a refused cancellation leaves the upgrade as it was.
Received(e) ==
  IF ~IsClosing(e) \/ e.id # backend.upgrade.id THEN backend
  ELSE IF e.type = "TP_CANCEL" /\ e.result = "RS_FAILURE"
       THEN [backend EXCEPT !.cancel = FALSE]
       ELSE Nothing

\* REQ_FEEDBACK: the POST may be lost or refused, or its answer may be lost; a refusal
\* is not noticed.  Without an id there is no POST, only an error.
ReqFeedback ==
  /\ Takes("REQ_FEEDBACK")
  /\ LET e == Head(requests)
     IN IF e.id = NoId \/ e.type = "TP_UNKNOWN"
        THEN UNCHANGED backendVars /\ answers' = << Reply("RES_ERROR") >>
        ELSE \/ /\ backend' = Received(e) /\ offers' = offers
                /\ answers' \in {<<>>, << Reply("RES_ERROR") >>}
             \/ UNCHANGED backendVars /\ answers' = << Reply("RES_ERROR") >>
             \/ backend' = backend /\ ErrorPage /\ answers' = <<>>
  /\ UNCHANGED <<hasInited, workVars, pollVars, stored>>

-----------------------------------------------------------------------------
(* The backend. *)

Offer(b) ==
  /\ offers < MaxOffers
  /\ offers' = offers + 1
  /\ backend' = b
  /\ answers' = <<>>
  /\ UNCHANGED <<requests, hasInited, workVars, pollVars, stored>>

\* An upgrade is assigned, its cancellation is requested, or it is withdrawn.
Backend ==
  \/ \E u \in Upgrades : Offer([upgrade |-> u, cancel |-> FALSE])
  \/ /\ backend.upgrade # NoUpgrade
     /\ \/ ~backend.cancel /\ Offer([backend EXCEPT !.cancel = TRUE])
        \/ Offer(Nothing)

\* The code leaves the state unset; it is set before anyone asks for it.
WebInit ==
  /\ requests = << Request("REQ_INIT") >>
  /\ webState = "WEB_IDLE" /\ hasInited = FALSE
  /\ work = "none" /\ workId = NoId /\ handle = FALSE
  /\ blocked = "no" /\ seen = Nothing
  /\ stored = {}
  /\ backend = Nothing /\ offers = 0
  /\ answers = <<>>

\* A step of the queue or of its worker, when the server has this upgrade and
\* this cancel id.
WebNext(upgrade, cancelId) ==
  \/ WorkEnds \/ StopThread \/ EndCb \/ Listen
  \/ ReqInit \/ ReqCheck \/ PollEnds(upgrade, cancelId)
  \/ ReqDownload \/ ReqVerify \/ ReqDistribute \/ ReqStop
  \/ StartThread(upgrade) \/ Stopped
  \/ SeesHandle \/ CanPull \/ CannotPull \/ ReqFeedback

-----------------------------------------------------------------------------
(* The queue alone: the server may ask for anything, with any upgrade at hand. *)

MayRequest ==
  { Request(type) :
      type \in {"REQ_INIT", "REQ_CHECK", "REQ_DOWNLOAD", "REQ_VERIFY",
                "REQ_DISTRIBUTE", "REQ_STOP"} }
    \cup { WebFeed(type, id, "EXE_PROCEEDING", "RS_SUCCESS") :
             type \in {"TP_DEPLOY", "TP_CANCEL"}, id \in Id \cup {NoId} }
    \cup { WebFeed(type, id, "EXE_CLOSED", result) :
             type \in {"TP_DEPLOY", "TP_CANCEL"}, id \in Id \cup {NoId},
             result \in Result }

Ask ==
  /\ \E e \in MayRequest : requests' = Append(requests, e)
  /\ answers' = <<>>
  /\ UNCHANGED <<workVars, hasInited, pollVars, stored, backendVars>>

Asked == \E upgrade \in Upgrades \cup {NoUpgrade}, cancelId \in Id \cup {NoId} :
           WebNext(upgrade, cancelId)

WebQueueNext == Asked \/ Backend \/ (Len(requests) < MaxEvents /\ (Ask \/ CheckUpgrade))

\* The backend answers or the connection fails; a distribution opens its port or
\* fails; a worker that is to end does; the thread that has posted its result ends;
\* the handlers go on.
Fairness ==
  /\ WF_webVars(\E upgrade \in Upgrades \cup {NoUpgrade}, id \in Id \cup {NoId} :
                   PollEnds(upgrade, id))
  /\ WF_webVars(Listen \/ (~handle /\ WorkEnds)) /\ WF_webVars(StopThread) /\ WF_webVars(EndCb)
  /\ WF_webVars(\E upgrade \in Upgrades \cup {NoUpgrade} : StartThread(upgrade))
  /\ WF_webVars(Stopped) /\ WF_webVars(SeesHandle) /\ WF_webVars(CanPull)
  /\ WF_webVars(CannotPull)

WebSpec == WebInit /\ [][WebQueueNext]_webVars /\ Fairness

\* Files are served by a worker that distributes, and only a poll has read anything.
TypeOK ==
  /\ requests \in Seq(MayRequest)
  /\ webState \in WebState
  /\ {hasInited, handle} \subseteq BOOLEAN
  /\ work \in Work /\ workId \in Id \cup {NoId}
  /\ handle => work = "distribute"
  /\ blocked \in {"no", "poll", "listen", "serving"} \cup DOMAIN StateOf
  /\ blocked # "poll" => seen = Nothing
  /\ {seen, backend} \subseteq Wanted
  /\ stored \subseteq Id
  /\ offers \in 0 .. MaxOffers

\* The state that the server reads, at any moment, is that of a worker or of a handler
\* that will start one; "distributing", which lets the clients pull, is never left
\* behind by a worker that has called back.  The handler sets it while the worker at
\* hand has not ended, and the callback of that one resets it (eventChanged,
\* stopThread, setEndCb).
StateIsWorked ==
  \A request \in DOMAIN WorkOf :
    webState = StateOf[request] =>
      blocked = request \/ work \in {WorkOf[request], "ending"}

\* The handlers that block the queue come to an end, and the requests behind them
\* get their turn: the poll, stopThread() that waits for the worker at hand, and
\* REQ_DISTRIBUTE that waits for its own, whether it can serve the files or fails
\* (eventChanged).
HandlersReturn == []<>(blocked = "no")
=============================================================================
