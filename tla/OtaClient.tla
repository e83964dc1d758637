----------------------------- MODULE OtaClient ------------------------------
(***************************************************************************)
(* The OTA workers: client/src/client.cpp, one for each domain.            *)
(*                                                                         *)
(* A client is an event queue, a worker thread, and the application whose  *)
(* deploy function the worker calls (examples/sample).  Each handler of    *)
(* the queue is an action, the end of the worker is another.  The worker   *)
(* posts its result to the queue, so that a result may be handled after    *)
(* control messages that came before it.  stopThread() waits for the       *)
(* worker; a worker that finishes at that very moment posts all the same.  *)
(*                                                                         *)
(* What a client tells the server is the value of `reported' after the     *)
(* step.  Left out: progress, messages, attributes; error codes matter as  *)
(* zero or not.  A package is named by the id of its upgrade.              *)
(***************************************************************************)
EXTENDS OtaTypes

CONSTANTS
  Domain,        \* the names of the clients
  Name,          \* the names that a `depends' entry may hold
  Requires,      \* the `depends' entry of a client's package
  Watcher,       \* the clients with a detail function
  CancelEnable,  \* the clients whose application allows to cancel
  Id,            \* the ids of the upgrades
  NoId,          \* the empty id
  VersionOf,     \* the version of the packages of an upgrade
  Patched,       \* the upgrades whose packages are patches
  Controls,      \* the control messages that may arrive
  Shown,         \* the states of the server in the detail messages
  MaxNumber,     \* message numbers are 0 .. MaxNumber; a client starts with 0
  MaxQueue       \* a bound: nothing arrives while the queue is this long

ASSUME ClientAssumption ==
  /\ Domain \subseteq Name
  /\ Requires \in [Domain -> SUBSET Name]
  /\ Watcher \subseteq Domain
  /\ CancelEnable \subseteq Domain
  /\ NoId \notin Id
  /\ VersionOf \in [Id -> Nat]
  /\ Patched \subseteq Id
  /\ Shown \subseteq ServerState
  /\ MaxNumber \in Nat
  /\ MaxQueue \in Nat

\* What a control message holds for the clients: the domains with a package.  The
\* server never sends CTL_UNKNOWN, and has packages only of an upgrade with an id.
ControlMessage ==
  { m \in [control : Control \ {"CTL_UNKNOWN"}, id : Id \cup {NoId},
           domains : SUBSET Name, depends : SUBSET Name] :
      m.id = NoId => m.domains = {} }

ASSUME ControlsAssumption == Controls \subseteq ControlMessage

\* The events of a client's queue; a control message keeps its content.
ClientEvent ==
  [event : {"REQ_CONTROL"}, message : ControlMessage]
    \cup [event : {"REQ_DETAIL"}, shown : ServerState]
    \cup [event : {"RES_ANSWER"}, answer : Answer]
    \cup [event : {"RES_ERROR", "RES_DOWNLOAD", "RES_VERIFY", "RES_PATCH",
                   "RES_DEPLOY_DONE", "RES_CANCEL_DONE"}]

\* What the worker does: it checks that the files exist ("deploy") before it
\* calls the application ("install").
Work == {"none", "download", "verify", "patch", "deploy", "install"}

\* A package in the directory of an upgrade, and how much of it is on the disk.
Place == (Id \cup {NoId}) \X Id
Content == {"none", "part", "full"}

Client ==
  [ state           : ClientState,
    last            : ClientState,
    error           : BOOLEAN,
    version         : Nat,               \* m_hpr->version
    id              : Id \cup {NoId},    \* m_hpr->upgrade.id
    package         : Id \cup {NoId},    \* m_hpr->detail.package
    hasCancelAction : BOOLEAN,
    serverState     : ServerState,
    needDiscovery   : BOOLEAN,
    messageId       : 0 .. MaxNumber,    \* m_hpr->controlMessageId
    patchNewFiles   : BOOLEAN,           \* not empty
    work            : Work,              \* m_hpr->workThread
    place           : Place \cup {<<>>}, \* the directory and the package it works on
    disk            : [Place -> Content],
    queue           : Seq(ClientEvent),
    installed       : Nat,               \* what the application has installed
    quit            : BOOLEAN ]          \* history: the worker left in silence

VARIABLES
  client,    \* the clients
  reported   \* the domain messages sent by the last step

vars == <<client, reported>>

-----------------------------------------------------------------------------
(* setDomainState, postEvent, workThread and sendDomainMessage. *)

Moved(c, s) ==
  IF c.state = s THEN c
  ELSE [c EXCEPT !.last = c.state, !.state = s, !.quit = @ /\ s # "WR_IDLE"]

Posted(c, e) == [c EXCEPT !.queue = Append(@, [event |-> e])]

\* The worker starts on the package in the directory of the upgrade.
Started(c, work) ==
  [c EXCEPT !.work = work, !.place = <<c.id, c.package>>, !.quit = FALSE,
            !.patchNewFiles = @ /\ work # "patch"]

Ended(c) == [c EXCEPT !.work = "none", !.place = <<>>]

\* The worker writes content x to its place on the disk.
Stored(c, x) == [c EXCEPT !.disk[c.place] = x]

\* What a download that does not succeed may leave: what was there, some of the
\* files, or all of them, when it is stopped after the last byte.  Files that are
\* complete stay so, since nothing is written to them.
Leavings(c) ==
  IF c.disk[c.place] = "full" THEN {"full"} ELSE {c.disk[c.place], "part", "full"}

\* The worker is gone before its end.
GivesUp(c) ==
  { Ended(x) : x \in IF c.work = "download" THEN { Stored(c, y) : y \in Leavings(c) }
                     ELSE {c} }

\* The ends of the worker that post a result: download(), verify(), patch() and
\* deploy(), and postDeployDone() and postCancelDone() of the application, which
\* look at the state.
Succeeds(c) ==
  CASE c.work = "download" -> {Posted(Ended(Stored(c, "full")), "RES_DOWNLOAD")}
    [] c.work = "verify" ->
         IF c.disk[c.place] = "full" THEN {Posted(Ended(c), "RES_VERIFY")} ELSE {}
    [] c.work = "patch" ->
         {[Posted(Ended(c), "RES_PATCH") EXCEPT !.patchNewFiles = TRUE]}
    [] c.work = "install" /\ c.state \in {"WR_DEPLOY", "WR_CANCEL"} ->
         {[Posted(Ended(c), "RES_DEPLOY_DONE") EXCEPT
             !.installed = VersionOf[c.place[2]]]}
    [] OTHER -> {}

Fails(c) ==
  IF \/ c.work \in {"download", "verify", "patch"}
     \/ c.work = "deploy" /\ c.disk[c.place] # "full"
     \/ c.work = "install" /\ c.state \in {"WR_DEPLOY", "WR_CANCEL"}
  THEN { Posted(x, "RES_ERROR") : x \in GivesUp(c) }
  ELSE {}

\* Applying patches is not cancelled: its status has no break function.
Cancels(c) ==
  IF /\ c.hasCancelAction
     /\ \/ c.work \in {"download", "verify"}
        \/ c.work = "install" /\ c.state = "WR_CANCEL"
  THEN { Posted(x, "RES_CANCEL_DONE") : x \in GivesUp(c) }
  ELSE {}

\* The worker finds the files of the package and calls the application.
Installs(c) ==
  IF c.work = "deploy" /\ c.disk[c.place] # "none"
  THEN {[c EXCEPT !.work = "install"]}
  ELSE {}

\* The application finishes when the state allows no answer: nothing is posted,
\* and what it has installed stays unknown to the client.
Unheeded(c) ==
  IF c.work = "install" /\ c.state \notin {"WR_DEPLOY", "WR_CANCEL"}
  THEN {Ended(c), [Ended(c) EXCEPT !.installed = VersionOf[c.place[2]]]}
  ELSE {}

\* What the worker may leave when it ends by itself.
WorkEnds(c) == Succeeds(c) \cup Fails(c) \cup Cancels(c) \cup Unheeded(c)

\* stopThread(): the worker stops where it is, or was ready just before.
StopThread(c) ==
  IF c.work = "none" THEN {c} ELSE WorkEnds(c) \cup GivesUp(c)

\* hasCancelAction changes under a worker.  It is set before the state is
\* WR_CANCEL: an application that sees it in between calls postCancelDone() in
\* vain and returns.  It is cleared: a worker that had seen it quits silently.
CancelAction(c, on) ==
  LET changed == [c EXCEPT !.hasCancelAction = on]
      racing == IF on THEN c.work = "install" /\ c.state # "WR_CANCEL"
                ELSE c.hasCancelAction /\ c.work \in {"download", "verify"}
  IN {changed} \cup IF racing THEN { [x EXCEPT !.quit = TRUE] : x \in GivesUp(changed) } ELSE {}

\* The domain message of c with an answer; a client without detail function
\* gives none.
Reported(d, c, answer) ==
  [ domain |-> d, state |-> c.state, last |-> c.last, version |-> c.version,
    error |-> c.error, discovery |-> c.needDiscovery,
    answer |-> IF d \in Watcher THEN answer ELSE "ANS_UNKNOWN" ]

\* sendDomainMessage() as the end of a handler that made c of client d; it fails
\* when the client is not connected.
SendAnswer(d, c, answer) ==
  \/ /\ client' = [client EXCEPT ![d] = [c EXCEPT !.needDiscovery = FALSE]]
     /\ reported' = << Reported(d, c, answer) >>
  \/ /\ client' = [client EXCEPT ![d] =
                     [c EXCEPT !.needDiscovery = TRUE, !.messageId = 0,
                               !.serverState = IF d \in Watcher THEN "MR_OFFLINE" ELSE @]]
     /\ reported' = <<>>

SendDomainMessage(d, c) == SendAnswer(d, c, "ANS_UNKNOWN")

\* A handler that sends nothing.
Quiet(d, c) ==
  /\ client' = [client EXCEPT ![d] = c]
  /\ reported' = <<>>

-----------------------------------------------------------------------------
(* The handlers.  Each takes the first event of the queue of client d. *)

\* The first event of d is one of this name; c is the client without it.
FirstIs(d, event) == client[d].queue # <<>> /\ Head(client[d].queue).event = event
Rest(d) == [client[d] EXCEPT !.queue = Tail(@)]

\* The first event of d is a control message; the client without it and with its
\* content, which a message without a package for d leaves as it was.
IsControl(d, control) ==
  FirstIs(d, "REQ_CONTROL") /\ Head(client[d].queue).message.control = control
Controlled(d) ==
  LET m == Head(client[d].queue).message
  IN [Rest(d) EXCEPT !.id = m.id, !.package = IF d \in m.domains THEN m.id ELSE @]

detectEqual(c) == c.version = VersionOf[c.package]
detectVaild(c) == c.version < VersionOf[c.package]

CtlReset(d) ==
  /\ IsControl(d, "CTL_RESET")
  /\ \E c \in CancelAction(Controlled(d), FALSE) :
       SendDomainMessage(d, Moved([c EXCEPT !.error = FALSE],
                                  IF c.state = "WR_OFFLINE" THEN "WR_IDLE" ELSE c.state))

CtlDownload(d) ==
  /\ IsControl(d, "CTL_DOWNLOAD")
  /\ \E c \in CancelAction(Controlled(d), FALSE) :
       IF c.package = NoId \/ c.state \in {"WR_DOWNLOAD", "WR_ERROR"}
       THEN SendDomainMessage(d, c)
       ELSE \E s \in StopThread(Moved([c EXCEPT !.error = FALSE], "WR_DOWNLOAD")) :
              SendDomainMessage(d, Started(s, "download"))

\* CTL_DEPLOY is ignored: nothing to deploy, deploying already, in error, or done.
DeployIgnored(c) ==
  \/ c.package = NoId
  \/ c.state \in {"WR_DEPLOY", "WR_ERROR"}
  \/ detectEqual(c) /\ c.state = "WR_IDLE"

\* Mutant: nothing is said of a version that is there already.
DeployedSilently(c) ==
  CASE detectEqual(c) -> c
    [] detectVaild(c) -> Started(c, "deploy")
    [] OTHER -> Posted(c, "RES_ERROR")
\* The deployment starts, or ends at once by what the versions say.
Deployed(c) ==
  CASE detectEqual(c) -> Posted(c, "RES_DEPLOY_DONE")
    [] detectVaild(c) -> Started(c, "deploy")
    [] OTHER -> Posted(c, "RES_ERROR")

CtlDeploy(d) ==
  /\ IsControl(d, "CTL_DEPLOY")
  /\ \E c \in CancelAction(Controlled(d), FALSE) :
       IF DeployIgnored(c) THEN SendDomainMessage(d, c)
       ELSE LET waiting == IF c.state = "WR_IDLE" THEN Moved(c, "WR_WAIT") ELSE c
            IN IF hasDepends(Requires[d], Head(client[d].queue).message.depends)
               THEN SendDomainMessage(d, waiting)
               ELSE \E s \in StopThread(Moved([waiting EXCEPT !.error = FALSE], "WR_DEPLOY")) :
                      SendDomainMessage(d, Deployed(s))

\* Mutant: a client that waits for the deployment does not answer.
CancelAnsweredLater(d, c) ==
  CASE detectEqual(c) -> Posted(c, "RES_ERROR")
    [] ~detectEqual(c) /\ c.last = "WR_IDLE" -> Posted(c, "RES_CANCEL_DONE")
    [] ~detectEqual(c) /\ d \notin CancelEnable /\ c.last = "WR_DEPLOY" ->
         Posted(c, "RES_ERROR")
    [] OTHER -> c
\* Mutant: an idle client does not answer.
CancelIgnoredIdle(d, c) ==
  CASE detectEqual(c) -> Posted(c, "RES_ERROR")
    [] ~detectEqual(c) /\ d \in CancelEnable /\ c.last = "WR_WAIT" ->
         Posted(c, "RES_CANCEL_DONE")
    [] ~detectEqual(c) /\ d \notin CancelEnable /\ c.last = "WR_DEPLOY" ->
         Posted(c, "RES_ERROR")
    [] OTHER -> c
\* What CTL_CANCEL posts, by the version and the state it interrupted.
CancelAnswered(d, c) ==
  CASE detectEqual(c) -> Posted(c, "RES_ERROR")
    [] ~detectEqual(c) /\ c.last = "WR_IDLE" -> Posted(c, "RES_CANCEL_DONE")
    [] ~detectEqual(c) /\ d \in CancelEnable /\ c.last = "WR_WAIT" ->
         Posted(c, "RES_CANCEL_DONE")
    [] ~detectEqual(c) /\ d \notin CancelEnable /\ c.last = "WR_DEPLOY" ->
         Posted(c, "RES_ERROR")
    [] OTHER -> c

CtlCancel(d) ==
  /\ IsControl(d, "CTL_CANCEL")
  /\ \E c \in CancelAction(Controlled(d), TRUE) :
       IF c.package = NoId \/ c.state \in {"WR_CANCEL", "WR_ERROR"}
       THEN SendDomainMessage(d, c)
       ELSE SendDomainMessage(d, CancelAnswered(d, Moved([c EXCEPT !.error = FALSE],
                                                         "WR_CANCEL")))

CtlClear(d) ==
  /\ IsControl(d, "CTL_CLEAR")
  /\ \E c \in CancelAction(Controlled(d), FALSE) : \E s \in StopThread(c) :
       SendDomainMessage(d, Moved(s, "WR_IDLE"))

\* The server's state is shown to the user.
ReqDetail(d) ==
  /\ FirstIs(d, "REQ_DETAIL")
  /\ Quiet(d, [Rest(d) EXCEPT !.serverState = Head(client[d].queue).shown])

\* The error code of the application may be zero.
ResError(d) ==
  /\ FirstIs(d, "RES_ERROR")
  /\ \E error \in BOOLEAN :
       SendDomainMessage(d, [Moved(Rest(d), "WR_ERROR") EXCEPT !.error = error])

\* A phase of the worker is over, the next one starts: RES_DOWNLOAD, RES_PATCH.
ResDownload(d) ==
  /\ FirstIs(d, "RES_DOWNLOAD") \/ FirstIs(d, "RES_PATCH")
  /\ \E s \in StopThread(Moved(Rest(d), "WR_VERIFY")) :
       SendDomainMessage(d, Started(s, "verify"))

\* The files are those of the package; patches have still to be applied, unless
\* they have been.
ResVerify(d) ==
  /\ FirstIs(d, "RES_VERIFY")
  /\ LET c == Rest(d)
     IN IF c.package \notin Patched \/ c.patchNewFiles
        THEN SendDomainMessage(d, Moved([c EXCEPT !.patchNewFiles = FALSE], "WR_WAIT"))
        ELSE \E s \in StopThread(Moved(c, "WR_PATCH")) :
               SendDomainMessage(d, Started(s, "patch"))

ResAnswer(d) ==
  /\ FirstIs(d, "RES_ANSWER")
  /\ SendAnswer(d, Rest(d), Head(client[d].queue).answer)

\* The deployment is over: the client now has the version of its package.
ResDeployDone(d) ==
  /\ FirstIs(d, "RES_DEPLOY_DONE")
  /\ SendDomainMessage(d, [Moved(Rest(d), "WR_IDLE") EXCEPT
                             !.version = VersionOf[client[d].package]])

ResCancelDone(d) ==
  /\ FirstIs(d, "RES_CANCEL_DONE")
  /\ SendDomainMessage(d, Moved(Rest(d), "WR_IDLE"))

Handle(d) ==
  \/ CtlReset(d) \/ CtlDownload(d) \/ CtlDeploy(d)
  \/ CtlCancel(d) \/ CtlClear(d) \/ ReqDetail(d) \/ ResError(d)
  \/ ResDownload(d) \/ ResVerify(d) \/ ResAnswer(d) \/ ResDeployDone(d)
  \/ ResCancelDone(d)

-----------------------------------------------------------------------------
(* What happens beside the queue. *)

\* The worker goes on: it ends, or calls the application.
WorkerStep(d) == \E c \in WorkEnds(client[d]) \cup Installs(client[d]) : Quiet(d, c)

\* The timer sends the domain message every second.
Heartbeat(d) == SendDomainMessage(d, client[d])

\* A control message arrives; one with the number of the last one is dropped
\* (checkControlMessageId).
ProcessControlMessage(d, m, number) ==
  /\ number # client[d].messageId
  /\ Quiet(d, [client[d] EXCEPT !.messageId = number,
                 !.queue = Append(@, [event |-> "REQ_CONTROL", message |-> m])])

\* A detail message arrives at a client that shows the server's state.
ProcessDetailMessage(d, shown) ==
  /\ d \in Watcher
  /\ Quiet(d, [client[d] EXCEPT !.queue = Append(@, [event |-> "REQ_DETAIL", shown |-> shown])])

\* The user answers what is shown: postDetailAnswer.
PostDetailAnswer(d, answer) ==
  /\ d \in Watcher
  /\ client[d].serverState \in mrStateIsAsk
  /\ Quiet(d, [client[d] EXCEPT !.queue = Append(@, [event |-> "RES_ANSWER", answer |-> answer])])

\* A client that starts, with what is on its disk and the installed version.
Booted(disk, installed) ==
  [ state |-> "WR_IDLE", last |-> "WR_OFFLINE", error |-> FALSE,
    version |-> installed, id |-> NoId, package |-> NoId,
    hasCancelAction |-> FALSE, serverState |-> "MR_OFFLINE",
    needDiscovery |-> TRUE, messageId |-> 0, patchNewFiles |-> FALSE,
    work |-> "none", place |-> <<>>, disk |-> disk, queue |-> <<>>,
    installed |-> installed, quit |-> FALSE ]

\* The process ends and starts again: a deployment may do that itself, or the
\* machine restarts.  The application tells the client what is installed.
Restart(d) ==
  LET c == client[d]
  IN \E x \in GivesUp(c),
        version \in {c.installed} \cup
                     IF c.work = "install" THEN {VersionOf[c.place[2]]} ELSE {} :
       Quiet(d, Booted(x.disk, version))

Init ==
  /\ client = [d \in Domain |-> Booted([p \in Place |-> "none"], 0)]
  /\ reported = <<>>

\* Nothing arrives while the queue is full: a bound of the model.
Room(d) == Len(client[d].queue) < MaxQueue

Next ==
  \E d \in Domain :
    \/ Handle(d) \/ WorkerStep(d) \/ Heartbeat(d) \/ Restart(d)
    \/ /\ Room(d)
       /\ \/ \E m \in Controls, number \in 0 .. MaxNumber : ProcessControlMessage(d, m, number)
          \/ \E shown \in Shown : ProcessDetailMessage(d, shown)
          \/ \E answer \in {"ANS_ACCEPT", "ANS_REFUSE"} : PostDetailAnswer(d, answer)

Spec == Init /\ [][Next]_vars

\* The queue is served, and the worker and the application come to an end.
FairSpec ==
  Spec /\ \A d \in Domain : WF_vars(Handle(d)) /\ WF_vars(WorkerStep(d))

-----------------------------------------------------------------------------
(* Properties. *)

TypeOK ==
  /\ client \in [Domain -> Client]
  /\ \A d \in Domain : client[d].work = "none" <=> client[d].place = <<>>

\* A worker, or an event that it has posted, will end the phase.
Pending(c, events) == \E i \in DOMAIN c.queue : c.queue[i].event \in events
Results ==
  { "RES_ERROR", "RES_DOWNLOAD", "RES_VERIFY", "RES_PATCH", "RES_DEPLOY_DONE",
    "RES_CANCEL_DONE" }
Underway(c) == c.work # "none" \/ Pending(c, Results)

\* A phase that a client reports is going on: the worker works, or its result
\* waits in the queue.  Otherwise the server waits for its timeout.  A worker that
\* quits in silence is the exception, and a cancellation that the application does
\* not allow (workThread, stopThread, hasCancelAction).
PhaseUnderway ==
  \A d \in Domain :
    LET c == client[d]
    IN c.state \in {"WR_DOWNLOAD", "WR_VERIFY", "WR_PATCH", "WR_DEPLOY", "WR_CANCEL"} =>
         Underway(c) \/ c.quit \/ (c.state = "WR_CANCEL" /\ d \notin CancelEnable)

\* No phase that a client reports lasts for ever, with the same exceptions, if the
\* queue is served and the worker and the application finish, whatever control
\* messages keep arriving (workThread, processControlMessage).
PhaseEnds ==
  \A d \in Domain :
    /\ \A s \in {"WR_DOWNLOAD", "WR_VERIFY", "WR_PATCH", "WR_DEPLOY"} :
         []<>(client[d].state # s \/ client[d].quit)
    /\ d \in CancelEnable => []<>(client[d].state # "WR_CANCEL" \/ client[d].quit)

=============================================================================
