----------------------------- MODULE OtaServer ------------------------------
(***************************************************************************)
(* The OTA master: server/src/server.cpp.                                  *)
(*                                                                         *)
(* The server is one event queue.  Its handlers run one at a time, so each *)
(* handler is one action; the one-second timer callback processDomains is  *)
(* another.  The web queue and the clients are its environment here: they  *)
(* may send any event of the constants below at any time, in any order,    *)
(* because the handlers accept them in any order.  OtaMaster puts the web  *)
(* queue beside this module.                                               *)
(*                                                                         *)
(* What a handler sends is the value of `posted' (events for the web       *)
(* queue) and `sent' (control messages for the clients) after the step;    *)
(* both hold the output of the last step only.                             *)
(*                                                                         *)
(* Left out, because no guard reads it: attributes, transfers, step and    *)
(* progress, messages, the `active' flag, and the detail messages that     *)
(* show the state to watchers.  The value of an error code matters only as *)
(* zero or not.                                                            *)
(***************************************************************************)
EXTENDS OtaTypes

CONSTANTS
  Domain,      \* the names of the domains (clients)
  Order,       \* the order in which Details::sort puts them
  Requires,    \* the `depends' entry of a domain's package: domains it needs
  Watcher,     \* the domains that subscribed to the server's details
  Unnamed,     \* stands for a package whose domain name is empty
  Id,          \* the action ids the backend uses
  NoId,        \* the empty id
  Upgrades,    \* the upgrades the backend offers
  Reports,     \* the reports a client may send
  RETRY_TIMES  \* MIFSA_OTA_RETRY_TIMES

ASSUME DomainAssumption ==
  /\ IsFiniteSet(Domain)
  /\ Order \in Seq(Domain)
  /\ \A d \in Domain : \E i \in DOMAIN Order : Order[i] = d
  /\ \A i, j \in DOMAIN Order : Order[i] = Order[j] => i = j
  /\ Requires \in [Domain -> SUBSET Domain]
  /\ Watcher \subseteq Domain
  /\ Unnamed \subseteq Domain

ASSUME IdAssumption == NoId \notin Id

Upgrade ==
  [id : Id, download : Method, deploy : Method, domains : SUBSET Domain]

NoUpgrade ==
  [ id |-> NoId, download |-> "MTHD_SKIP", deploy |-> "MTHD_SKIP",
    domains |-> {} ]

ASSUME InputAssumption ==
  /\ Upgrades \subseteq Upgrade
  /\ Reports \subseteq DomainReport
  /\ RETRY_TIMES \in Nat

\* A domain of a fresh upgrade has not been heard of.
Unheard ==
  [state |-> "WR_OFFLINE", last |-> "WR_OFFLINE", version |-> "none",
   error |-> FALSE]

(***************************************************************************)
(* The job: everything Server::idle() forgets.  Of m_hpr->details it has   *)
(* the domains (listed), what each reported last (report), whose heartbeat *)
(* clock runs (heard) and whose deploy clock runs (deploying).             *)
(***************************************************************************)
Job ==
  [ upgrade    : Upgrade \cup {NoUpgrade},
    cancelId   : Id \cup {NoId},
    depends    : SUBSET Domain,
    listed     : SUBSET Domain,
    report     : [Domain -> DomainReport],
    heard      : SUBSET Domain,
    deploying  : SUBSET Domain,
    subscribed : BOOLEAN ]

NoJob ==
  [ upgrade |-> NoUpgrade, cancelId |-> NoId, depends |-> {}, listed |-> {},
    report |-> [d \in Domain |-> Unheard], heard |-> {}, deploying |-> {},
    subscribed |-> FALSE ]

VARIABLES
  state,            \* m_hpr->state
  lastState,        \* m_hpr->lastState
  status,           \* mifsa_ota_status.json: the state and depends it holds
  firstStart,       \* that file did not exist when the server started
  cacheState,       \* the state readState() found in the file
  cacheDepends,     \* the depends readState() found in the file
  interrupted,      \* history: the process ended in a deployment, which nobody has
                    \* taken up since
  job,              \* the upgrade or the cancellation at hand
  type,             \* m_hpr->webFeed.type
  hasFeed,          \* the request has been answered with a closing feedback
  failed,           \* m_hpr->errorCode # 0
  retryTimes,       \* retries of the download so far
  hasNewId,         \* the upgrade has another id than the one before it
  lastlId,          \* the id of the last upgrade
  lastCancelId,     \* the id of the last cancellation
  cancelResume,     \* the upgrade is the one that was cancelled last
  hasDeployBreaked, \* a cancellation came while the domains deployed
  control,          \* the last control message sent to the clients
  posted,           \* web events posted by the last step
  sent              \* control messages sent by the last step

requestVars ==
  <<type, hasFeed, failed, retryTimes, hasNewId, lastlId, lastCancelId,
    cancelResume, hasDeployBreaked>>
bootVars == <<firstStart, cacheState, cacheDepends, interrupted>>
vars ==
  <<state, lastState, status, bootVars, job, requestVars, control, posted,
    sent>>

\* The status file before the server has ever saved it.
NoStatus == [state |-> "MR_UNKNOWN", depends |-> {}]

-----------------------------------------------------------------------------
(***************************************************************************)
(* setState, idle, feedback and sendControlMessage.  A handler may change  *)
(* the state twice, so the state a call starts from is the argument `from' *)
(* and the job it starts from the argument `j'.                            *)
(***************************************************************************)

\* The feedback that setState posts when the new state is a busy one.
Proceeding(new, t, j) ==
  IF new \notin mrStateIsBusy THEN <<>>
  ELSE << IF t = "TP_DEPLOY"
          THEN WebFeed("TP_DEPLOY", j.upgrade.id, "EXE_PROCEEDING", "RS_SUCCESS")
          ELSE WebFeed("TP_CANCEL", j.cancelId, "EXE_PROCEEDING", "RS_SUCCESS") >>

\* What setState(new) posts when it is called in state `from'.
Changed(from, new, t, j) ==
  IF new = from THEN <<>> ELSE Proceeding(new, t, j)

\* Mutants: without the test that the state changes; saving the file too early.
SetStateAlways(from, new, before, after) ==
  /\ state' = new
  /\ posted' = before \o Proceeding(new, type', job') \o after
  /\ lastState' = from
  /\ status' = [state |-> new, depends |-> job'.depends]
SetStateSavesOld(from, new, before, after) ==
  /\ state' = new
  /\ posted' = before \o Changed(from, new, type', job') \o after
  /\ IF new = from
     THEN UNCHANGED <<lastState, status>>
     ELSE lastState' = from /\ status' = [state |-> from, depends |-> job'.depends]

\* setState(new), called in state `from' with the job and the feed type of the
\* next state; the handler posts `before' and `after' around it.
SetState(from, new, before, after) ==
  /\ state' = new
  /\ posted' = before \o Changed(from, new, type', job') \o after
  /\ IF new = from
     THEN UNCHANGED <<lastState, status>>
     ELSE /\ lastState' = from
          /\ status' = [state |-> new, depends |-> job'.depends]

\* Mutant: the request is not forgotten.
IdleKeepsJob(from, j, before) ==
  /\ job' = j
  /\ SetState(from, "MR_IDLE", before, <<>>)

\* idle() called in state `from' with job j: nothing to do when idle already.
Idle(from, j, before) ==
  /\ job' = IF from = "MR_IDLE" THEN j ELSE NoJob
  /\ SetState(from, "MR_IDLE", before, <<>>)

\* A control message; `depends' is read by CTL_DEPLOY only.  A cached message
\* repeats the number of the last one.
Message(c, j, cached) ==
  [control |-> c, upgrade |-> j.upgrade, depends |-> j.depends, cached |-> cached]

\* Mutant: the message is not kept for clients that come later.
SendControlMessageOnly(c, j, before) ==
  /\ control' = control
  /\ sent' = before \o << Message(c, j, FALSE) >>

\* sendControlMessage(c) of a handler that sends it after `before'.
SendControlMessage(c, j, before) ==
  /\ control' = c
  /\ sent' = before \o << Message(c, j, FALSE) >>

\* The id of the action that is answered.
FeedId(t, j) == IF t = "TP_DEPLOY" THEN j.upgrade.id ELSE j.cancelId

\* What feedback(finished) posts before it changes the state.
Closing(finished, t, j) ==
  << Request("REQ_STOP"),
     WebFeed(t, FeedId(t, j), "EXE_CLOSED",
             IF finished THEN "RS_SUCCESS" ELSE "RS_FAILURE") >>

\* A user is there to confirm the result; the mutant asks whoever is there.
AskAnyway(j) == TRUE
Subscribed(j) == j.subscribed

\* The part of feedback() after its two early returns: answer the request, tell
\* the clients to clear up, and ask the user to confirm if there is one.  The
\* handler posted `before', sent `message', and posts `after'.
Feedback(finished, from, j, before, message, after) ==
  /\ hasFeed' = TRUE
  /\ failed' = ~finished
  /\ SendControlMessage("CTL_CLEAR", j, message)
  /\ IF Subscribed(j)
     THEN /\ job' = j
          /\ SetState(from, IF finished THEN "MR_DONE_ASK" ELSE "MR_ERROR_ASK",
                      before \o Closing(finished, type', j), after)
     ELSE /\ job' = IF from = "MR_IDLE" THEN j ELSE NoJob
          /\ SetState(from, "MR_IDLE", before \o Closing(finished, type', j), after)

\* feedback() has been called for this request, or there was no request.
Answered == hasFeed \/ type = "TP_UNKNOWN"

\* feedback(finished) as the only effect of a handler on the state.
TryFeedback(finished, j, message) ==
  IF Answered
  THEN /\ job' = j
       /\ posted' = <<>>
       /\ sent' = message
       /\ UNCHANGED <<state, lastState, status, hasFeed, failed, control>>
  ELSE Feedback(finished, state, j, <<>>, message, <<>>)

\* Mutant: the details of the earlier upgrade are not cleared.
FreshKeepsClocks(u, j) ==
  [ j EXCEPT !.upgrade = u, !.depends = u.domains, !.listed = u.domains,
             !.report = [d \in Domain |-> Unheard], !.heard = {} ]

\* The job of a new upgrade u: pending() lists its domains afresh.
Fresh(u, j) ==
  [ j EXCEPT !.upgrade = u, !.depends = u.domains, !.listed = u.domains,
             !.report = [d \in Domain |-> Unheard], !.heard = {},
             !.deploying = {} ]

\* pending() with upgrade u.
Pending(u, j, message) ==
  /\ failed' = FALSE
  /\ job' = Fresh(u, j)
  /\ SendControlMessage("CTL_RESET", Fresh(u, j), message)
  /\ SetState(state, "MR_PENDING", <<>>, <<>>)

-----------------------------------------------------------------------------
(* The initial state, and a restart of the process. *)

Init ==
  /\ state = "MR_OFFLINE" /\ lastState = "MR_OFFLINE"
  /\ status = NoStatus /\ firstStart = TRUE
  /\ cacheState = "MR_UNKNOWN" /\ cacheDepends = {} /\ interrupted = FALSE
  /\ job = NoJob
  /\ type = "TP_UNKNOWN" /\ hasFeed = FALSE /\ failed = FALSE /\ retryTimes = 0
  /\ hasNewId = FALSE /\ lastlId = NoId /\ lastCancelId = NoId
  /\ cancelResume = FALSE /\ hasDeployBreaked = FALSE
  /\ control = "CTL_UNKNOWN"
  /\ posted = <<>> /\ sent = <<>>

\* The process ends, at any time, and the service manager starts it again
\* (Restart=always).  Only the status file survives.  A deployment that ended with
\* the process is interrupted until it is taken up; it is lost at the next end, since
\* idle() has written over it by then (RES_INIT), unless RES_INIT has not come.
Restart ==
  /\ state' = "MR_OFFLINE" /\ lastState' = "MR_OFFLINE"
  /\ status' = status /\ firstStart' = (status = NoStatus)
  /\ cacheState' = "MR_UNKNOWN" /\ cacheDepends' = {}
  /\ interrupted' = IF state = "MR_OFFLINE" THEN interrupted ELSE state = "MR_DEPLOY"
  /\ job' = NoJob
  /\ type' = "TP_UNKNOWN" /\ hasFeed' = FALSE /\ failed' = FALSE
  /\ retryTimes' = 0
  /\ hasNewId' = FALSE /\ lastlId' = NoId /\ lastCancelId' = NoId
  /\ cancelResume' = FALSE /\ hasDeployBreaked' = FALSE
  /\ control' = "CTL_UNKNOWN"
  /\ posted' = <<>> /\ sent' = <<>>

-----------------------------------------------------------------------------
(* The events of the web queue. *)

\* The user has still to confirm a result: most events are ignored.
Confirming == state \in {"MR_DONE_ASK", "MR_ERROR_ASK"}

\* The download may be tried again after a failure.
RetriesLeft == retryTimes < RETRY_TIMES

\* RES_ERROR while files are transferred: check the backend, start again.
RetryDownload ==
  /\ state \in {"MR_DOWNLOAD", "MR_VERIFY", "MR_DISTRIBUTE"}
  /\ RetriesLeft
  /\ retryTimes' = retryTimes + 1
  /\ type' = type
  /\ job' = job
  /\ SetState(state, "MR_DOWNLOAD", <<Request("REQ_CHECK")>>,
              <<Request("REQ_DOWNLOAD")>>)
  /\ sent' = <<>>
  /\ UNCHANGED <<hasFeed, failed, hasNewId, lastlId, lastCancelId,
                 cancelResume, hasDeployBreaked, bootVars, control>>

\* RES_ERROR in another state, or once too often: the request has failed.
GiveUp ==
  /\ \/ /\ state \in {"MR_DOWNLOAD", "MR_VERIFY", "MR_DISTRIBUTE"}
        /\ ~RetriesLeft
        /\ retryTimes' = 0
     \/ /\ state \notin {"MR_DOWNLOAD", "MR_VERIFY", "MR_DISTRIBUTE"}
        /\ retryTimes' = retryTimes
  /\ type' = type
  /\ TryFeedback(FALSE, job, <<>>)
  /\ UNCHANGED <<hasNewId, lastlId, lastCancelId, cancelResume,
                 hasDeployBreaked, bootVars>>

ResError == RetryDownload \/ GiveUp

\* REQ_IDLE: the backend has nothing for this target.
ReqIdle ==
  /\ ~Confirming
  /\ type' = type
  /\ Idle(state, job, <<>>)
  /\ sent' = <<>>
  /\ UNCHANGED <<hasFeed, failed, retryTimes, hasNewId, lastlId, lastCancelId,
                 cancelResume, hasDeployBreaked, bootVars, control>>

\* REQ_UPGRADE: the backend wants upgrade u.
ReqUpgrade(u) ==
  /\ ~Confirming
  /\ hasFeed' = FALSE
  /\ type' = "TP_DEPLOY"
  /\ hasNewId' = (lastlId # u.id)
  /\ cancelResume' = (lastlId = u.id /\ lastCancelId = u.id)
  /\ lastlId' = u.id
  /\ hasDeployBreaked' = (hasDeployBreaked /\ lastlId = u.id)
  /\ Pending(u, job, <<>>)
  /\ UNCHANGED <<retryTimes, lastCancelId, bootVars>>

\* REQ_CANCEL: the backend wants action id to be cancelled.
ReqCancel(id) ==
  LET j == [job EXCEPT !.cancelId = id]
      refusal == << WebFeed("TP_DEPLOY", job'.cancelId, "EXE_CLOSED", "RS_FAILURE") >>
  IN /\ type' = "TP_CANCEL"
     /\ lastCancelId' = id
     /\ hasDeployBreaked' = (hasDeployBreaked \/ state = "MR_DEPLOY")
     /\ \/ /\ state = "MR_WAIT" \/ state \in mrStateIsAsk
           /\ Feedback(TRUE, state, j, <<>>, <<>>, <<>>)
        \/ /\ state \notin mrStateIsAsk \cup mrStateIsBusy
           /\ Feedback(FALSE, state, j, <<>>, <<>>, refusal)
        \/ /\ state \in mrStateIsBusy \ {"MR_WAIT"}
           /\ hasFeed' = FALSE
           /\ job' = j
           /\ SetState(state, "MR_CANCEL_ASK", <<>>, <<>>)
           /\ sent' = <<>>
           /\ UNCHANGED <<failed, control>>
     /\ UNCHANGED <<retryTimes, hasNewId, lastlId, cancelResume, bootVars>>

\* REQ_PULL: the files are served; the clients may download them.  The handler
\* asks the web queue whether it still distributes.
ReqPull(distributing) ==
  /\ ~Confirming
  /\ distributing
  /\ type' = type
  /\ job' = job
  /\ IF job.upgrade.download # "MTHD_SKIP"
     THEN SendControlMessage("CTL_DOWNLOAD", job, <<>>)
     ELSE control' = control /\ sent' = <<>>
  /\ SetState(state, "MR_DISTRIBUTE", <<>>, <<>>)
  /\ UNCHANGED <<hasFeed, failed, retryTimes, hasNewId, lastlId, lastCancelId,
                 cancelResume, hasDeployBreaked, bootVars>>

\* RES_INIT: the web queue is ready; read the status file, then go idle (which
\* writes it).  Nothing asks of the state read whether it is any but MR_DEPLOY.
ResInit ==
  /\ ~Confirming
  /\ cacheState' = IF status.state = "MR_DEPLOY" THEN "MR_DEPLOY" ELSE "MR_UNKNOWN"
  /\ cacheDepends' = status.depends
  /\ type' = type
  /\ Idle(state, job, <<>>)
  /\ sent' = <<>>
  /\ UNCHANGED <<hasFeed, failed, retryTimes, hasNewId, lastlId, lastCancelId,
                 cancelResume, hasDeployBreaked, firstStart, interrupted, control>>

\* RES_DOWNLOAD_DONE, RES_VERIFY_DONE and RES_DISTRUBUTE_DONE: the worker of the
\* web queue has finished one phase.
PhaseDone(next, request) ==
  /\ ~Confirming
  /\ type' = type
  /\ job' = job
  /\ SetState(state, next, <<>>, request)
  /\ sent' = <<>>
  /\ UNCHANGED <<hasFeed, failed, retryTimes, hasNewId, lastlId, lastCancelId,
                 cancelResume, hasDeployBreaked, bootVars, control>>

ResDownloadDone == PhaseDone("MR_VERIFY", <<Request("REQ_VERIFY")>>)
ResVerifyDone == PhaseDone("MR_DISTRIBUTE", <<Request("REQ_DISTRIBUTE")>>)
ResDistributeDone == PhaseDone("MR_WAIT", <<>>)

-----------------------------------------------------------------------------
(***************************************************************************)
(* RES_DOMAIN: client d reports r; discovery asks for the last control     *)
(* message again; a watcher's report may carry the answer of its user.     *)
(***************************************************************************)

\* The job after the first part of the handler.
Recorded(d, r) ==
  LET known == d \in job.listed
  IN [ job EXCEPT
         !.subscribed = @ \/ d \in Watcher,
         !.report = IF known THEN [@ EXCEPT ![d] = r] ELSE @,
         !.heard = IF known THEN @ \cup {d} ELSE @ ]

\* The control message repeated for a client that has (re)discovered the server.
Repeated(d, discovery) ==
  IF discovery /\ d \in job.listed \cup Watcher /\ control # "CTL_UNKNOWN"
  THEN << Message(control, job, TRUE) >>
  ELSE <<>>

\* The report carries no answer, or the state asks nothing.
ResDomain(d, r, discovery) ==
  /\ d \notin Unnamed
  /\ job' = Recorded(d, r)
  /\ posted' = <<>>
  /\ sent' = Repeated(d, discovery)
  /\ UNCHANGED <<state, lastState, status, bootVars, requestVars, control>>

\* configAnswer, the user accepts: download(), deploy(), cancel(), resume() and
\* idle().  cancel() would call feedback if it left a state before the
\* deployment; it always leaves MR_CANCEL_ASK, so it never does.
Accept(j, repeated) ==
  \/ /\ state = "MR_DOWNLOAD_ASK"
     /\ job' = j
     /\ SetState(state, "MR_DOWNLOAD", <<>>, <<Request("REQ_DOWNLOAD")>>)
     /\ sent' = repeated
     /\ UNCHANGED <<hasFeed, failed, control, cacheState, interrupted, hasDeployBreaked>>
  \/ /\ state = "MR_DEPLOY_ASK"
     /\ job' = j
     /\ SendControlMessage("CTL_DEPLOY", j, repeated)
     /\ SetState(state, "MR_DEPLOY", <<>>, <<>>)
     /\ UNCHANGED <<hasFeed, failed, cacheState, interrupted, hasDeployBreaked>>
  \/ /\ state = "MR_CANCEL_ASK"
     /\ job' = j
     /\ SendControlMessage("CTL_CANCEL", j, repeated)
     /\ SetState(state, "MR_CANCEL", <<>>, <<>>)
     /\ UNCHANGED <<hasFeed, failed, cacheState, interrupted, hasDeployBreaked>>
  \/ /\ state = "MR_RESUME_ASK"
     /\ job' = [j EXCEPT !.depends = cacheDepends]
     /\ SendControlMessage("CTL_DEPLOY", job', repeated)
     /\ SetState(state, "MR_DEPLOY", <<>>, <<>>)
     /\ cacheState' = "MR_UNKNOWN" /\ interrupted' = FALSE
     /\ hasDeployBreaked' = FALSE
     /\ UNCHANGED <<hasFeed, failed>>
  \/ /\ Confirming
     /\ Idle(state, j, <<>>)
     /\ sent' = repeated
     /\ UNCHANGED <<hasFeed, failed, control, cacheState, interrupted, hasDeployBreaked>>

\* configAnswer, the refusals.
Refuse(j, repeated) ==
  /\ UNCHANGED <<cacheState, interrupted>>
  /\ \/ /\ state \in {"MR_DOWNLOAD_ASK", "MR_DEPLOY_ASK", "MR_CANCEL_ASK"}
        /\ TryFeedback(FALSE, j, repeated)
        /\ hasDeployBreaked' = hasDeployBreaked
     \/ /\ state = "MR_RESUME_ASK"
        /\ hasDeployBreaked' = FALSE
        /\ \/ /\ hasNewId /\ cacheState = "MR_DEPLOY"
              /\ Pending(job.upgrade, j, repeated)
              /\ hasFeed' = hasFeed
           \/ /\ ~(hasNewId /\ cacheState = "MR_DEPLOY")
              /\ Idle(state, j, <<>>)
              /\ sent' = repeated
              /\ UNCHANGED <<hasFeed, failed, control>>

\* configAnswer with the answer that is neither: it only ends the chance to resume.
OtherAnswer(j, repeated) ==
  /\ state = "MR_RESUME_ASK"
  /\ hasDeployBreaked' = FALSE
  /\ job' = j
  /\ posted' = <<>> /\ sent' = repeated
  /\ UNCHANGED <<state, lastState, status, hasFeed, failed, control, cacheState,
                 interrupted>>

\* A report with the answer of the user.
ResAnswer(d, r, discovery, answer) ==
  LET j == Recorded(d, r)
      repeated == Repeated(d, discovery)
  IN /\ d \in Watcher \ Unnamed
     /\ type' = type
     /\ \/ answer = "ANS_ACCEPT" /\ Accept(j, repeated)
        \/ answer = "ANS_REFUSE" /\ Refuse(j, repeated)
        \/ answer = "ANS_OTHER" /\ OtherAnswer(j, repeated)
     /\ UNCHANGED <<retryTimes, hasNewId, lastlId, lastCancelId, cancelResume,
                    firstStart, cacheDepends>>

-----------------------------------------------------------------------------
(***************************************************************************)
(* processDomains, the timer callback.  It walks through the details in    *)
(* order, and may leave the walk with a failure.  The clocks it reads are  *)
(* inputs: `late' says that the state has lasted too long, `silent' whose  *)
(* heartbeat is too old, `overdue' who deploys or restarts for too long.   *)
(***************************************************************************)

\* The callback has something to look at.
Watching ==
  /\ type # "TP_UNKNOWN"
  /\ state \notin {"MR_IDLE", "MR_UNKNOWN", "MR_OFFLINE"}
  /\ ~hasFeed
  /\ ~failed

\* The states with a time limit.
Limited ==
  { "MR_PENDING", "MR_DOWNLOAD", "MR_DISTRIBUTE", "MR_VERIFY", "MR_DEPLOY",
    "MR_CANCEL" }

\* The reports after the first n domains were visited: the silent are offline.
Expired(n, silent) ==
  [ d \in Domain |->
      IF /\ d \in silent \cap job.listed \cap job.heard
         /\ job.report[d].state # "WR_OFFLINE"
         /\ \E i \in DOMAIN Order : i <= n /\ Order[i] = d
      THEN [job.report[d] EXCEPT !.last = job.report[d].state,
                                 !.state = "WR_OFFLINE"]
      ELSE job.report[d] ]

Online(r) == r.state \notin {"WR_UNKNOWN", "WR_OFFLINE"} /\ r.version # "none"

\* Selecting the domains: the states in which versions are compared.
Selecting == state \in {"MR_PENDING", "MR_READY", "MR_DOWNLOAD_ASK"}

\* The deploy clocks are looked at.
InDeployment ==
  state = "MR_DEPLOY" \/ (state = "MR_CANCEL" /\ lastState = "MR_DEPLOY")

\* Mutant: a domain that is done already does not stop the cancellation.
RejectedNotDone(d, r, overdue) ==
  \/ d \in Unnamed
  \/ Selecting /\ Online(r) /\ ~detectVersionVaild(r)
  \/ InDeployment /\ d \in job.deploying \cap overdue

\* The visit of d, whose report is r, ends the walk with a failure: no name
\* (1917), not upgradable (1918), already upgraded when cancelling (1919), too
\* long in deployment or in a restart (1920, 1921).
Rejected(d, r, overdue) ==
  \/ d \in Unnamed
  \/ Selecting /\ Online(r) /\ ~detectVersionVaild(r)
  \/ state = "MR_CANCEL" /\ detectVersionEqual(r)
  \/ InDeployment /\ d \in job.deploying \cap overdue

\* The walk ends after n visits without a failure.
StopsAfter(n, silent, overdue) ==
  LET Fails(i) ==
        /\ Order[i] \in job.listed
        /\ Rejected(Order[i], Expired(i, silent)[Order[i]], overdue)
  IN /\ \A i \in 1 .. n : ~Fails(i)
     /\ n < Len(Order) => Fails(n + 1)

\* A domain that deploys has come back with the new version.
Finished(d, r) == d \in job.deploying /\ r.state = "WR_IDLE" /\ detectVersionEqual(r)

\* Mutant: one that has not begun to deploy is not waited for.
UnfinishedClocks(deploying, reports) == {d \in job.listed : d \in deploying}

\* The domains that others have still to wait for when d is found finished.
Unfinished(deploying, reports) ==
  { d \in job.listed : d \in deploying \/ reports[d].state = "WR_WAIT" }

\* What the first n visits of a deployment make of the deploy clocks and the depends.
Visit(silent) ==
  LET walk[n \in 0 .. Len(Order)] ==
        IF n = 0
        THEN [deploying |-> job.deploying, depends |-> job.depends]
        ELSE
          LET d == Order[n]
              w == walk[n - 1]
              r == Expired(n, silent)[d]
          IN IF d \in job.listed /\ Finished(d, r)
             THEN [ deploying |-> w.deploying \ {d},
                    depends |-> Unfinished(w.deploying \ {d}, Expired(n, silent)) ]
             ELSE IF /\ d \in job.listed \ w.deploying
                     /\ r.state = "WR_DEPLOY"
                     /\ ~hasDepends(Requires[d], w.depends)
             THEN [w EXCEPT !.deploying = @ \cup {d}]
             ELSE w
  IN walk

\* The domains that are still waited for after n visits.
Depends(n, silent) == {d \in Domain : d \in Visit(silent)[n].depends}

\* The job after n visits (and the failed one, if it is not the last).
After(n, silent) ==
  LET j == [job EXCEPT !.report = Expired(n + 1, silent)]
  IN IF InDeployment
     THEN [ j EXCEPT !.deploying = {d \in job.listed : d \in Visit(silent)[n].deploying},
                     !.depends = Depends(n, silent) ]
     ELSE j

\* The visits of the first n that find a domain finished, and the visit of the i-th.
FinishedBy(n, silent) ==
  { i \in 1 .. n : /\ Order[i] \in job.listed
                   /\ Finished(Order[i], Expired(i, silent)[Order[i]]) }
FinishedAt(i, silent) ==
  CHOOSE k \in FinishedBy(Len(Order), silent) : Cardinality(FinishedBy(k, silent)) = i

\* For every domain that is found finished CTL_DEPLOY is sent again, with the depends
\* at that moment, and a feedback is posted.
Repeats(n, silent) ==
  IF InDeployment /\ control = "CTL_DEPLOY" THEN Cardinality(FinishedBy(n, silent)) ELSE 0

Resent(n, silent) ==
  [ i \in 1 .. Repeats(n, silent) |->
      Message("CTL_DEPLOY",
              [job EXCEPT !.depends = Depends(FinishedAt(i, silent), silent)], FALSE) ]

Scheduled(n, silent) ==
  [ i \in 1 .. Repeats(n, silent) |->
      WebFeed("TP_DEPLOY", job.upgrade.id, "EXE_SCHEDULED", "RS_SUCCESS") ]

Cancelled(r) == r.state = "WR_IDLE" /\ r.last = "WR_CANCEL"
InError(r) == r.error \/ r.state = "WR_ERROR"

\* Mutants: a domain that is idle, or still downloads, counts.
AllIdle(j) == j.listed # {} /\ \A d \in j.listed : j.report[d].state = "WR_IDLE"
NoneElsewhere(j) ==
  j.listed # {} /\ \A d \in j.listed : j.report[d].state \in {"WR_WAIT", "WR_DOWNLOAD"}

\* The counters at the end of the walk; none counts if there are no details.
AllOnline(j) == j.listed # {} /\ \A d \in j.listed : Online(j.report[d])
AllEqual(j) == j.listed # {} /\ \A d \in j.listed : detectVersionEqual(j.report[d])
AllWaiting(j) == j.listed # {} /\ \A d \in j.listed : j.report[d].state = "WR_WAIT"
AllCancelled(j) == j.listed # {} /\ \A d \in j.listed : Cancelled(j.report[d])

\* An interrupted deployment can be taken up again: the status file told of one
\* when the server started, or the user's cancellation interrupted one.
MayResume ==
  IF hasNewId THEN cacheState = "MR_DEPLOY" ELSE cancelResume /\ hasDeployBreaked

\* The state after the domains were compared; j is the job after the walk.
Selected(j) ==
  IF Selecting /\ AllOnline(j)
  THEN CASE state = "MR_PENDING" -> IF MayResume THEN "MR_RESUME_ASK" ELSE "MR_READY"
         [] state # "MR_PENDING" /\ j.upgrade.download = "MTHD_FORCED" -> "MR_DOWNLOAD"
         [] state = "MR_READY" /\ j.upgrade.download = "MTHD_ATTEMPT" -> "MR_DOWNLOAD_ASK"
         [] OTHER -> state
  ELSE IF state = "MR_DOWNLOAD_ASK" THEN "MR_PENDING" ELSE state

\* The state after the waiting domains were counted.
Released(j) ==
  IF state \in {"MR_WAIT", "MR_DEPLOY_ASK"} /\ AllWaiting(j)
  THEN CASE j.upgrade.deploy = "MTHD_FORCED" -> "MR_DEPLOY"
         [] state = "MR_WAIT" /\ j.upgrade.deploy = "MTHD_ATTEMPT" -> "MR_DEPLOY_ASK"
         [] OTHER -> state
  ELSE IF state = "MR_DEPLOY_ASK" THEN "MR_WAIT" ELSE Selected(j)

\* What download() posts and deploy() sends when the callback calls them.  Mutant: the
\* web queue is not asked.
DemandNothing(new) == <<>>
Demand(new) == IF new = "MR_DOWNLOAD" /\ Selecting THEN <<Request("REQ_DOWNLOAD")>> ELSE <<>>
Release(new, j) ==
  IF new = "MR_DEPLOY" /\ state # "MR_DEPLOY"
  THEN << Message("CTL_DEPLOY", j, FALSE) >>
  ELSE <<>>

\* The end of the callback after a complete walk; the order is that of the code.
Conclude(j, feeds, messages) ==
  LET new == Released(j)
      posts == feeds \o Changed(state, new, type', j) \o Demand(new)
      sends == messages \o Release(new, j)
  IN \/ /\ AllEqual(j) /\ (firstStart \/ state = "MR_DEPLOY")
        /\ Feedback(TRUE, Selected(j), j,
                    feeds \o Changed(state, Selected(j), type', j), messages, <<>>)
     \/ /\ ~(AllEqual(j) /\ (firstStart \/ state = "MR_DEPLOY"))
        /\ \/ /\ state = "MR_CANCEL" /\ AllCancelled(j)
              /\ Feedback(TRUE, state, j, feeds, messages, <<>>)
           \/ /\ ~(state = "MR_CANCEL" /\ AllCancelled(j))
              /\ \/ /\ \E d \in j.listed : InError(job.report[d])
                    /\ Feedback(FALSE, new, j, posts, sends, <<>>)
                 \/ /\ \A d \in j.listed : ~InError(job.report[d])
                    /\ job' = j
                    /\ SetState(state, new, feeds, Demand(new))
                    /\ sent' = sends
                    /\ control' = IF Release(new, j) = <<>> THEN control ELSE "CTL_DEPLOY"
                    /\ UNCHANGED <<hasFeed, failed>>

ProcessDomains(late, silent, overdue) ==
  /\ Watching
  /\ type' = type
  /\ \/ /\ late /\ state \in Limited
        /\ Feedback(FALSE, state, job, <<>>, <<>>, <<>>)
     \/ /\ ~late \/ state \notin Limited
        /\ \E n \in 0 .. Len(Order) :
             /\ StopsAfter(n, silent, overdue)
             /\ \/ /\ n < Len(Order)
                   /\ Feedback(FALSE, state, After(n, silent), Scheduled(n, silent),
                               Resent(n, silent), <<>>)
                \/ /\ n = Len(Order)
                   /\ Conclude(After(n, silent), Scheduled(n, silent),
                               Resent(n, silent))
  /\ UNCHANGED <<retryTimes, hasNewId, lastlId, lastCancelId, cancelResume,
                 hasDeployBreaked, bootVars>>

-----------------------------------------------------------------------------
\* An event of the web queue.  RES_INIT is the first one, and comes once: the web
\* queue looks for upgrades only after its initialisation has succeeded.
WebStep ==
  \/ /\ state = "MR_OFFLINE"
     /\ ResInit
  \/ /\ state # "MR_OFFLINE"
     /\ \/ ResError \/ ReqIdle
        \/ ResDownloadDone \/ ResVerifyDone \/ ResDistributeDone
        \/ \E distributing \in BOOLEAN : ReqPull(distributing)
        \/ \E u \in Upgrades : ReqUpgrade(u)
        \/ \E id \in Id : ReqCancel(id)

\* A report of a client.
DomainStep ==
  \E d \in Domain, r \in Reports, discovery \in BOOLEAN :
    \/ ResDomain(d, r, discovery)
    \/ \E answer \in Answer : ResAnswer(d, r, discovery, answer)

TimerStep ==
  \E late \in BOOLEAN, silent \in SUBSET job.heard, overdue \in SUBSET job.deploying :
    ProcessDomains(late, silent, overdue)

Next == WebStep \/ DomainStep \/ TimerStep \/ Restart

Spec == Init /\ [][Next]_vars

-----------------------------------------------------------------------------
(* Properties. *)

TypeOK ==
  /\ state \in ServerState
  /\ lastState \in ServerState
  /\ status \in [state : ServerState, depends : SUBSET Domain]
  /\ firstStart \in BOOLEAN
  /\ cacheState \in {"MR_UNKNOWN", "MR_DEPLOY"}
  /\ interrupted \in BOOLEAN
  /\ cacheDepends \in SUBSET Domain
  /\ job \in Job
  /\ type \in FeedType
  /\ hasFeed \in BOOLEAN
  /\ failed \in BOOLEAN
  /\ retryTimes \in 0 .. RETRY_TIMES
  /\ hasNewId \in BOOLEAN
  /\ lastlId \in Id \cup {NoId}
  /\ lastCancelId \in Id \cup {NoId}
  /\ cancelResume \in BOOLEAN
  /\ hasDeployBreaked \in BOOLEAN
  /\ control \in Control

\* A result waits to be confirmed only if it has been reported, is shown as what
\* it is, and someone has subscribed who can confirm it: in these states nearly
\* every event is ignored, so nobody else could end them (feedback, configAnswer).
ConfirmationCanEnd ==
  Confirming => /\ hasFeed
                /\ job.subscribed
                /\ failed <=> state = "MR_ERROR_ASK"

\* While the user is asked about a cancellation, or it runs, the feedback that
\* will end it is for the cancellation and has an id to go to; it runs only after
\* the user agreed (REQ_CANCEL, configAnswer, cancel).
CancelUnderway ==
  /\ state \in {"MR_CANCEL_ASK", "MR_CANCEL"} =>
       type = "TP_CANCEL" /\ ~hasFeed /\ job.cancelId # NoId
  /\ state = "MR_CANCEL" => lastState = "MR_CANCEL_ASK"

\* While the domains of an upgrade are being found the request is the upgrade,
\* nothing has failed, no deploy clock of an earlier attempt runs: processDomains
\* would leave at once, or fail the new upgrade for the old one (pending).
SelectionFresh ==
  state \in {"MR_PENDING", "MR_READY", "MR_DOWNLOAD_ASK", "MR_RESUME_ASK"} =>
    /\ type = "TP_DEPLOY" /\ ~hasFeed /\ ~failed
    /\ job.upgrade # NoUpgrade
    /\ job.deploying = {}

\* The details are those of the upgrade's domains, clocks run for these only, and
\* an idle server has none: the timer and REQ_DISTRIBUTE read both (pending, idle).
DetailsOfUpgrade ==
  /\ job.listed = job.upgrade.domains
  /\ job.heard \cup job.deploying \subseteq job.listed
  /\ state \in {"MR_OFFLINE", "MR_IDLE"} => job.upgrade = NoUpgrade

\* The clients act on the last control message, and a client that discovers the
\* server again is sent a copy of it: it has to fit the state the server is in
\* (sendControlMessage in pending, deploy, cancel and feedback; RES_DOMAIN).
ControlFitsState ==
  /\ state \in {"MR_PENDING", "MR_READY", "MR_DOWNLOAD_ASK", "MR_RESUME_ASK"} =>
       control = "CTL_RESET"
  /\ state = "MR_DEPLOY" => control = "CTL_DEPLOY"
  /\ state = "MR_CANCEL" => control = "CTL_CANCEL"
  /\ Confirming => control = "CTL_CLEAR"

\* Once the domains of an upgrade that is new to the server are found, the user is
\* asked to resume if the process ended in a deployment, and only then: not after an
\* end in another state, nor twice for the same deployment.  Two things the code does
\* are excepted: a second end of the process before the user has accepted loses the
\* deployment, as idle() has saved MR_IDLE over it (RES_INIT; see interrupted), and
\* an upgrade with the id of the last one is not asked about (hasNewId, readState).
ResumeAsked ==
  state \in {"MR_READY", "MR_DOWNLOAD_ASK", "MR_RESUME_ASK"} /\ hasNewId =>
    (state = "MR_RESUME_ASK" <=> interrupted)

\* What the closing of an action with success has to mean in the state it is made in.
Truthful(e) ==
  IsClosing(e) /\ e.result = "RS_SUCCESS" =>
    /\ e.type = "TP_DEPLOY" => e.id = job.upgrade.id /\ AllEqual(job)
    /\ e.type = "TP_CANCEL" /\ state = "MR_CANCEL" =>
         \A d \in job.listed :
           Cancelled(job.report[d]) /\ ~detectVersionEqual(job.report[d])

\* The success of an upgrade is reported only for the upgrade at hand, and only if
\* every domain has reported the new version; the success of a cancellation that
\* ran, only if every domain has left it and none has the new version
\* (processDomains, feedback).
SuccessIsTrue == [][ \A i \in DOMAIN posted' : Truthful(posted'[i]) ]_vars

=============================================================================
