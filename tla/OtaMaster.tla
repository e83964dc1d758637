------------------------------ MODULE OtaMaster -----------------------------
(***************************************************************************)
(* The OTA master: the server (OtaServer) and the web queue with its       *)
(* worker and the backend (OtaWebQueue), in one process.                   *)
(*                                                                         *)
(* Each of the two has a thread and a queue of events.  What a handler of  *)
(* one posts is appended to the queue of the other, and is handled later:  *)
(* the result of a transfer may meet a server that has gone on.  The web   *)
(* queue reads the server's upgrade under a lock, the server the state of  *)
(* the web queue without one.                                              *)
(*                                                                         *)
(* OtaProgress adds what is shown of all this, the reports of the clients, *)
(* the timer, and the specification.                                       *)
(***************************************************************************)
EXTENDS OtaServer

CONSTANTS
  MaxOffers, MaxEvents,  \* of OtaWebQueue
  Cases       \* what may come from outside; see plan

VARIABLES
  inbox,      \* the events of the web queue that the server has still to handle
  plan,       \* (fixed) [reports: what a domain may say, and bounds, offers: the
              \* backend changes its mind so often, events: no timer, no report and
              \* no poll with so many events waiting]
  cut,        \* history: REQ_STOP came when the server was in a transfer
  behind,     \* history: REQ_PULL was posted behind the end of its distribution
  requests, webState, hasInited, work, workId, handle, blocked, seen, stored,
  backend, offers, answers  \* of OtaWebQueue

Web == INSTANCE OtaWebQueue

\* The requests that start the worker.
Transfers == {"REQ_DOWNLOAD", "REQ_VERIFY", "REQ_DISTRIBUTE"}

serverVars ==
  <<state, lastState, status, bootVars, job, requestVars, control>>
workerVars == <<work, workId, handle, webState>>
webVars ==
  <<requests, hasInited, workerVars, blocked, seen, stored, backend, offers>>
historyVars == <<cut, behind>>
masterVars == <<vars, webVars, answers, inbox, historyVars, plan>>

-----------------------------------------------------------------------------
(* The server's thread. *)

\* An event that changes nothing: a result waits to be confirmed, or the files are
\* not served any more.
Ignored(e) ==
  /\ \/ Confirming /\ e.event \notin {"RES_ERROR", "REQ_CANCEL"}
     \/ e.event = "REQ_PULL" /\ webState # "WEB_DISTRIBUTE"
  /\ UNCHANGED <<vars, webVars, answers, historyVars>>

Handled(e) ==
  \/ e.event = "RES_INIT" /\ ResInit
  \/ e.event = "RES_ERROR" /\ ResError
  \/ e.event = "REQ_IDLE" /\ ReqIdle
  \/ e.event = "REQ_UPGRADE" /\ ReqUpgrade(e.upgrade)
  \/ e.event = "REQ_CANCEL" /\ ReqCancel(e.id)
  \/ e.event = "REQ_PULL" /\ ReqPull(webState = "WEB_DISTRIBUTE")
  \/ e.event = "RES_DOWNLOAD_DONE" /\ ResDownloadDone
  \/ e.event = "RES_VERIFY_DONE" /\ ResVerifyDone
  \/ e.event = "RES_DISTRUBUTE_DONE" /\ ResDistributeDone

\* What a step of the server posts is appended to the requests of the web queue.
Posting ==
  /\ requests' = requests \o posted'
  /\ cut' = (cut /\ posted' = <<>>) /\ behind' = behind
  /\ answers' = <<>>
  /\ UNCHANGED <<workerVars, hasInited, blocked, seen, stored, backend, offers>>

WebEvent ==
  /\ inbox # <<>>
  /\ inbox' = Tail(inbox) /\ plan' = plan
  /\ \/ Handled(Head(inbox)) /\ Posting
     \/ Ignored(Head(inbox))

Room == Len(inbox) + Len(requests) < plan.events

-----------------------------------------------------------------------------
(* The web queue's thread, its worker and the backend. *)

\* The web queue takes one of these requests.
Taken(events) ==
  requests # <<>> /\ requests' = Tail(requests) /\ Head(requests).event \in events

WebQueueStep ==
  /\ \/ Web!WebNext(job.upgrade, job.cancelId)
     \/ Room /\ Web!CheckUpgrade
     \/ Web!Backend
  /\ offers' <= plan.offers /\ plan' = plan
  /\ inbox' = inbox \o answers'
  /\ cut' = (cut \/ (/\ Taken({"REQ_STOP"})
                     /\ state \in {"MR_DOWNLOAD", "MR_VERIFY", "MR_DISTRIBUTE"}))
  /\ behind' = (/\ ~Taken(Transfers)
                /\ behind \/ (blocked = "serving" /\ blocked' = "no" /\ ~handle))
  /\ UNCHANGED vars

\* The process ends and starts again; the files and the backend stay.
MasterRestart ==
  /\ Restart
  /\ inbox' = <<>> /\ cut' = FALSE /\ behind' = FALSE
  /\ requests' = << Request("REQ_INIT") >>
  /\ webState' = "WEB_IDLE" /\ hasInited' = FALSE
  /\ work' = "none" /\ workId' = NoId /\ handle' = FALSE
  /\ blocked' = "no" /\ seen' = Web!Nothing
  /\ answers' = <<>>
  /\ UNCHANGED <<stored, backend, offers, plan>>

MasterInit ==
  Init /\ Web!WebInit /\ inbox = <<>> /\ cut = FALSE /\ behind = FALSE /\ plan \in Cases

-----------------------------------------------------------------------------
(* Properties. *)

\* Something will tell the server of the transfer: a worker, a request for one, or
\* an event that one has posted.
Awaited(queue, events) == \E i \in DOMAIN queue : queue[i].event \in events
Underway ==
  \/ work # "none" \/ blocked \in Transfers
  \/ Awaited(requests, Transfers)
  \/ Awaited(inbox, {"RES_ERROR", "RES_DOWNLOAD_DONE", "RES_VERIFY_DONE",
                     "RES_DISTRUBUTE_DONE"})

\* While the server is in a phase of a transfer, and its request is not answered,
\* the transfer is really going on, or its result is on its way; the server would
\* wait for its timeout otherwise.  The exceptions are a stop for an earlier request
\* that comes late, when a result of that request has moved the server into the phase;
\* and REQ_PULL that comes behind the end of its distribution, and before the callback
\* has reset the state (eventChanged of both queues, feedback).
TransferUnderway ==
  state \in {"MR_DOWNLOAD", "MR_VERIFY", "MR_DISTRIBUTE"} /\ ~Answered =>
    Underway \/ cut \/ behind

\* Beside the web queue the server does what OtaServer says it does among all web
\* events: RES_INIT is the first event, and nothing comes before it
\* (REQ_INIT, checkUpgrade).
ServerSpec == Spec
=============================================================================
