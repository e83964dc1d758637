# Verification of mifsa-ota

mifsa-ota upgrades the controllers of a vehicle over the air. A *master* polls a
hawkbit backend; when the backend assigns an upgrade the master downloads,
verifies and distributes its packages to the *clients* (one for each domain, e.g.
an ECU), has them deployed in the order their dependencies ask for, and reports
the result. Cancellation, questions to the user, retries, timeouts, and a restart
in the middle of a deployment are part of it. This directory holds TLA+ models of
that code, TLC configurations that check them, and proofs checked by TLAPS.

Source paths below are relative to the repository. `PROJECT.json` maps every
definition to the lines it models.

## The system

| Part | Source | State | Operations | Interacts with |
| --- | --- | --- | --- | --- |
| server | `server/src/server.cpp` | server state, upgrade and cancel id, details of the domains, depends, feed type, retry counter, status file | an event queue (`eventChanged`) and the 1 s callback `processDomains` | posts requests to the web queue, sends control and detail messages to the clients, reads the web queue's state |
| web queue | `server/src/web_queue.cpp` | queue, worker thread, distribute handle | poll, download, verify, distribute, stop, feedback | posts results to the server, reads its upgrade under a lock |
| hawkbit | `server/src/hawkbit_queue.cpp`, `src/core/message_http.cpp` | none | `detect`, `feedback` | HTTP with the backend |
| client | `client/src/client.cpp` | client state, last state, version, package, worker thread, `hasCancelAction` | five control messages, the phases download, verify, patch, deploy, the application's `postDeployDone` and `postCancelDone` | reports its domain every second and after every handler |
| download | `src/core/download_http.cpp` | data files, `.cache` files | a job for each file, resumption | called by both workers |
| distribution | `src/core/distribute_http.cpp` | urls not yet served, connections, handle | serve, release, stop | fetched from by the clients |
| preparation | `src/core/verify_openssl.cpp`, `patch_bsdiff.cpp`, `utils` | files, new files | digest, patch | called by both workers |
| thread pool, HTTP | `src/hpplib/httplib.hpp` | jobs, threads, sockets | enqueue, shutdown, listen, stop | used by all of `src/core` |
| adapters | `server/src/adapter`, `client/src/adapter`, `idls` | connections, queues | fdbus, ROS, SOME/IP | carry domain, control and detail messages |
| types | `src/types/*.cpp`, `include/mifsa/ota/types/*.h` | - | versions, dependencies, comparison of domains and upgrades | used everywhere |
| viewer | `examples/viewer` | window | shows the details, answers | an application of a client |

What is hard in it: five threads (server queue, web queue, web worker, client
queue, client worker) and a pool under each worker, that talk by events which are
not matched with a request; a state that is read on one thread and set on another;
a web queue that blocks; retries and timeouts in the server while late results are
on their way; messages that are broadcast to whoever is there; files that outlive
the process; a backend that changes its mind between two requests; a user who may
answer an older question. What makes each part correct:

- server: nothing of an old request decides a new one; the cached control message
  and the status file agree with the state; no success that is none; no
  cancellation without consent; no state without an exit;
- web queue: its state is that of its worker; the handlers that block it return;
- server and web queue together: a transfer that the server waits for goes on;
- hawkbit: the server is told what hawkbit wants, and hawkbit how it ended;
- client: a phase it reports is being worked on, and ends;
- the vehicle: what is reported as installed is; the order is kept; it ends;
- download and distribution: the bytes on the disk are those of the file after any
  interruption; what counts as served was served; both ends finish;
- preparation: what is said of a file is true; the process survives it;
- bus: the last message is heard, none after a later one, with all its fields;
- viewer: it asks what the server asks and tells what happened.

`PROJECT.json` lists the hazards with their lines, the properties aimed at them,
and for those without a property the reason.

## Modules

| Module | Models | Remarks |
| --- | --- | --- |
| `OtaTypes` | enumerations and value types | versions are abstracted to what a package makes of them: none, old, new, bad |
| `OtaServer` | the server | one action for each event handler, each part of `configAnswer`, the timer callback, a restart; the web queue and the clients are an arbitrary environment |
| `OtaClient` | a client | one action for each control message and event, the worker's end, reports, arriving messages, restart; the server is an arbitrary environment |
| `OtaWebQueue` | the web queue and its worker | one action for each request; the handlers that wait are split where they wait |
| `OtaMaster` | server and web queue in one process | `OtaServer` extended, `OtaWebQueue` instantiated; two event queues between them |
| `OtaProgress` | the step and progress the server shows | extends `OtaMaster`: the worker's reports on transfers wait in the server's queue |
| `OtaHawkbit` | the dialogue with hawkbit | one action for each HTTP request of a poll; the server as hawkbit sees it |
| `OtaSystem` | the vehicle: server, bus, clients | `OtaServer` extended, `OtaClient` instantiated for each domain; the web queue without delays |
| `OtaDeployment` | the deployment of many domains that wait for each other | `OtaSystem` from the moment on at which everybody waits |
| `OtaLink` | the connections of the three adapters | message numbers, discovery, queues; a message is its place in what was sent |
| `OtaWire` | the conversions of the three adapters | a message is a function from fields to values |
| `OtaPrepare` | verification and patching in the client | jobs on a pool, their shared list, the handlers of the results |
| `ForkJoin` | what callers rely on in a thread pool | abstract specification |
| `ThreadPool` | `httplib::ThreadPool` | implements `ForkJoin`; one action for each critical section |
| `HttpDownload` | a download with its jobs, connections, files | and the loop of retries around it |
| `HttpDistribute` | the file server, its connections and its stop | with the part of `httplib::Server` it depends on |
| `HttpTransfer` | a domain pulling from the master | both instantiated, connection by connection |
| `OtaViewer` | the user before the server | extends `OtaServer`: messages, window, answers |
| `OtaServerProofs`, `OtaSystemProofs`, `OtaWebQueueProofs`, `OtaProgressProofs`, `OtaClientProofs`, `OtaMessageProofs`, `OtaPrepareProofs`, `HttpTransferProofs` | - | theorems |
| `MC...` | - | instances for TLC |

`OtaServer`, `OtaClient` and `OtaWebQueue` are open: their environment may send
any event at any time. A property that holds there holds in every composition.
That the server inside `OtaMaster` is an `OtaServer` is checked (`ServerSpec`) and
proved (`ServerImplemented`), so what is proved of `OtaServer` carries over
(`MasterIsServer`).

### State and actions

A handler runs to its end before the next event of its queue, so it is one
action, with every call it makes (`setState` with its status file and feedback,
`idle`, `pending`, `feedback`, `sendControlMessage`). What a step sends is the
value of an output variable (`posted`, `sent`, `reported`) after it.

- *Server.* `job` is what `idle()` forgets. Clocks are inputs of the timer
  callback: `late` (the state has lasted too long), `silent` (heartbeats too old),
  `overdue` (deployments or restarts that take too long). The walk over the
  details is a function of the number of visits; it may leave at a failure.
- *Client.* The worker posts its result to the queue, so other messages may be
  handled first. `stopThread()` chooses between a worker that stops and one that
  was ready just before. `CancelAction` is the race between `hasCancelAction` and
  an application that looks at it. `disk` and `installed` are what survives a
  restart. A worker that fails, is cancelled, stopped or killed (`GivesUp`) leaves of
  a download what was there, a part, or all of it. `download()` may return without
  joining its pool, which ends the process; that is a restart.
- *Web queue.* A worker that has posted its result is `ending` until its callback
  resets the state. A poll reads the backend when it starts and compares with the
  server when it ends; an error page is an answer like another. The requests that
  concern the worker set the state and then wait in `stopThread()` for the worker at
  hand, with the new state visible to the server and the queue blocked (`blocked`
  says in what); REQ_DISTRIBUTE starts its worker then and waits for it as well, until
  it has seen the files served, or the worker end. Between what it saw and its REQ_PULL
  the worker may end.
- *Hawkbit.* hawkbit decides between any two requests; `offered` (history) is what
  it has wanted since the poll began. The server is reduced to whether it has an
  upgrade or a cancellation and whether its end waits for a confirmation.
- *System.* `Carried` is what the bus keeps of a message, `link` the three steps of
  a connection (a client may report before its subscription has arrived). The web
  queue's result comes when its state allows it; `served` counts the domains whose
  files were sent.
- *Deployment.* The steps of `OtaSystem` without faults and without heartbeats that
  say no new state, from the state it comes to when every domain waits. `slipped` is
  history: the domains that the timer left out of the depends while they deployed.
- *Progress.* Percentages are counted in parts of `1/Unit` so that they are whole.
  Which phase a report belongs to is read from the web queue when it is handled.
- *Link.* The three transports differ in what survives a break and in what is
  queued: fdbus and SOME/IP drop what is sent to nobody, ROS keeps the last of a
  bounded queue. What is matched on its own is an element of `link[c]` that comes and
  goes on its own: the topics of ROS, the subscriptions of SOME/IP. `unaware` and
  `old` are history: clients that could not know that they missed something, and
  messages of a connection that is over.
- *Wire.* `FdbusClient`, `RosServer` and so on are the fields each conversion
  copies. It is assumed that `Variant::readJson` reads what `toJson` wrote.
- *Preparation.* The control messages are sent only where the server sends them
  (`Send`). A push to the shared list is a read and a write; two at a time may lose
  one. A base is the first file of its name in the directory. A control message
  that starts the worker again clears `hasCancelAction` first (`TakeBack`) and stops
  the old worker later (`stopping`); in between that one may go on. A worker that
  finds the flag set when it is entered returns at once (`Enter`). `resumed` is
  history: a cancellation was taken back under the worker.
- *Thread pool.* A step under the mutex is one action. An owner that returns
  without `shutdown()` ends the process, as a joinable `std::thread` does.
- *Download, distribution, transfer.* A byte is its position in the file. The data
  and the breakpoint are flushed one after the other, and the process may die in
  between. A connection is a record both ends see: `HttpTransfer` gives the
  client's record what the server's did (`Seen`, `HangUp`). The last flush of a
  breakpoint and the removal of its file are two steps. `stopThread()` reads the handle
  of a distribution and calls its `stop()` in two steps: the server may not be running
  yet, or be gone. The death of a process comes from outside (`Kill`, external).
- *Viewer.* The server takes every step of `OtaServer` that its web queue, its domains
  or its timer can cause, and may start again (`Disconnect`). `request` is history: the
  kind of request the server worked on when it sent a detail.

### Left out

Attributes, texts, the `active` flag, the guid check, the value of an error code
other than zero or not, the reading of JSON, the feed of details to the backend
during a deployment. REQ_CLEAR, REQ_CLEARALL and CTL_UNKNOWN are never sent;
RES_FEEDBACK_DONE and REQ_ACTIVE change nothing that is modelled. `stopThread()`
is assumed to end a worker within the three seconds it waits: the code starts the
next one in any case. That a worker ends is modelled, not when. In `OtaServer` the cached state after a start is kept only as
"deploying" or not, as nothing else is asked of it.

## Runs

There is one run for each component and each composition. Where a question needs
another instance (two domains, a backend that cancels), the instance is chosen in
the initial state (`plan`, `Cases`, `Orders`, `transport`), so that one run covers
all of them.

| Run | Instance | Checks |
| --- | --- | --- |
| `one` | server, one domain, two upgrades with one id (asked, forced), five reports, one retry | `ConfirmationCanEnd`, `CancelUnderway`, `SelectionFresh`, `DetailsOfUpgrade`, `ControlFitsState`, `ResumeAsked`, `SuccessIsTrue` |
| `client` | one client that allows cancellation, an upgrade with a patch, all controls, a deployment that waits, a queue of 1, fair | `PhaseUnderway`, `PhaseEnds` |
| `web` | web queue, one upgrade, any requests, two changes of the backend or error pages, a queue of 2, fair | `StateIsWorked`, `HandlersReturn` |
| `master` | server and web queue with reports on a package of one unit, one forced upgrade, no retry; three cases: two events in a queue, a backend that changes its mind, an upgrade to its end | `TransferUnderway`, `NotAhead`, `ServerSpec` |
| `hawkbit` | two actions, three documents, three changes of mind, two faults, fair | `PostedIsWanted`, `ActionsEnd` |
| `system` | three cases: two domains of which one depends on the other; one domain with one fault (a failed phase, a restart of either side, a broken connection), after which a server that starts again is offered the upgrade again; one domain whose user is asked and a backend that cancels; fair | `DeploysComplete`, `SuccessIsReal`, `UpgradeEnds`, `CancelEnds` |
| `deployment` | three domains that wait with their files: two need nobody, the third requires the second | `DependsFirst` |
| `bus` | each transport with one watcher (on SOME/IP also as a domain of the upgrade), up to three messages of a kind with the numbers 0 and 1, one break, one restart, fair; for the conversions each transport and two changes | `InOrder`, `ControlHeard`, `StatusHeard`, `FieldsCarried` |
| `transfer` | a domain pulls from the master: two files without accidents, or one with two accidents (a broken connection, a cancellation or a death of the domain, a stop of the master), two calls, fair | `PulledIsWhole`, `NeverBehind`, `SuccessIsOffered`, `StopEnds`, `CallEnds`, `BothFinish` |
| `prepare` | three upgrades (two patches; a patch and a plain file; a file without a checksum), three messages, a queue of 2, fair | `VerifiedIsIntact`, `ErrorHasCause`, `PreparationEnds` |
| `viewer` | one domain and the viewer; two requests; one and a connection that breaks, perhaps with a restart of the server; two with such a break and no answer from the domain; fair | `PromptSettles`, `CancelToldIsCancel`, `QuestionsEnd` |
| `pool` | two threads, three jobs, fair | `QueuedJobHasWorker`, `ForkJoinSpec`, `ShutdownReturns` |

What they show:

- `SelectionFresh`, `DetailsOfUpgrade`: REQ_UPGRADE may come in any state; the
  selection of domains starts without an error, a closing feedback or a clock of
  the request before.
- `ControlFitsState`: what a returning client is sent fits the state.
- `ResumeAsked`: an upgrade new to the server is asked to be resumed exactly if the
  process ended in a deployment, across the status file, the start, the offer and the
  walk of the timer that finds the domains. The code keeps that promise once: going
  idle at the start saves MR_IDLE, so a second end before the user has accepted loses
  the deployment (`interrupted` says so). An offer with the id of the last one is not
  asked about.
- `SuccessIsTrue`: a success is reported only when every domain has reported the
  new version, or has left a cancellation that ran on the old one.
- `CancelUnderway`, `ConfirmationCanEnd`: consent, and an exit for questions.
- `PhaseUnderway`, `PhaseEnds`: a client that reports a phase has a worker or a
  result in its queue, and leaves the phase. Two exceptions are in the code: a
  worker that saw `hasCancelAction` set and then cleared quits without a word
  (`quit`), and a client that does not allow cancellation answers only from some
  states.
- `StateIsWorked`: the state the server asks for is, at any moment and in the middle
  of a handler, that of the worker, or of a handler that waits for the old worker and
  will start one. The state may be behind: the callback of the old worker resets what
  the handler has set; then REQ_PULL is ignored and the timeout of the server ends the
  upgrade.
- `HandlersReturn`: no handler blocks the web queue for ever, neither in its wait for
  the files to be served nor in `stopThread()`.
- `TransferUnderway`: in DOWNLOAD, VERIFY and DISTRIBUTE, with the request not yet
  answered, a worker runs, is asked for, or its result is queued. Both exceptions are
  real. The results are not matched with a request, so one of a closed upgrade can move
  the server into a phase, and the stop that was posted for that closed upgrade then
  ends it (`cut`). And a distribution may fail between the moment its handler sees the
  handle and the REQ_PULL, which then comes behind the error (`behind`).
- `NotAhead`: late reports do not take the bar ahead of the files.
- `PostedIsWanted`, `ActionsEnd`: the server is told only of what hawkbit wanted
  during the poll, and every action of hawkbit ends. A fault is a request that
  fails, an error page or a restart.
- `DeploysComplete`, `SuccessIsReal`: what a domain hands to its application is whole,
  and what is reported as installed is.
- `DependsFirst`: who requires another deploys after it, with one exception, which TLC
  finds with three domains: the timer computes the depends anew from deploy clocks and
  WR_WAIT whenever one domain has finished, and leaves out another that deploys but
  whose clock has not started (`slipped`). Who requires that one then deploys beside it.
- `UpgradeEnds`, `CancelEnds`: without any timeout of the server, with the named
  exceptions `Overlooked` (a domain deployed between two ticks is waited for),
  `Overtaken` (a result takes the server out of a cancellation) and `quit`.
- `InOrder`, `ControlHeard`, `StatusHeard`: no message after a later one, and the
  last is heard by whoever stays connected, unless it could not know that it
  missed something (`unaware`), or the message has the number 0, to which the numbers
  wrap, and the client has heard nothing yet: it takes that for a repeat of nothing and
  waits for the next (`Mute`). The details are promised only to a watcher beside
  the upgrade.
- `PulledIsWhole`, `NeverBehind`: a call that succeeds leaves whole files, and the
  data is never behind its breakpoint. The exception `torn` is a breakpoint that
  did not agree with its data.
- `SuccessIsOffered`, `StopEnds`: a success means that every file was given out to its
  last byte; a stop from outside that finds the server running ends the distribution.
  One that comes too early or too late is not heard (`deaf`, `ended`).
- `FieldsCarried`: every field of an order and of a status arrives as it was set.
- `VerifiedIsIntact`, `ErrorHasCause`: a verification that says yes is true of the
  files as they came, and an error is about a file. The exception is `resumed`.
- `PromptSettles`, `CancelToldIsCancel`, `QuestionsEnd`: when nothing is under way
  the window asks what the server asks; a cancellation it tells of was one. A success
  it tells of may have been a cancellation: one that comes in MR_WAIT or before an
  answer leads to DONE_ASK by a way the window cannot tell from an upgrade.
- `ForkJoinSpec`: the pool does what its callers rely on.

### Bounds

One domain is enough for the interplay of queues, which knows no domains; what
depends on several is covered by `deployment` (three: one to finish, one to be left
out, one to wait for it), by a case of `system` and by the proofs. Two events in a queue allow any pair to be exchanged or
to overtake a stop. `RETRY_TIMES` is 2, 1 or 0 instead of 3: the first and the last
retry, or none where the run is about something else. `MaxOffers = 2` is an upgrade
and one more decision of the backend, 3 the way back as well. Files of one and two
bytes have a byte before and one after any point where they may be broken off. Two
calls are one that leaves something behind and one that goes on from it. `Total = 20`
in the system is more messages than a run sends; in `bus` it is 1, so that the second
message of a kind has the number 0 again and the third 1. The constant of the code is
100000, and the numbers wrap to 0 as there. In `OtaMaster` the timer, the reports and the polls wait while `MaxEvents` events
are queued, in `OtaSystem` the arrivals and the users; what a handler posts is never
held back. `OtaSystem` leaves out a heartbeat that repeats what the server has already
recorded of a client that is connected and knows of no break (`UpToDate`): the server
only restarts its heartbeat clock for it, and in the model nobody who is connected
falls silent. It comes back as soon as the record is
emptied for another upgrade.

The exception `resumed` of `ErrorHasCause` lies beyond the bounds of its run, as it
needs six control messages: with six messages and a queue of three TLC finds that
the property fails without the exception and holds with it. Empty files, and more
than two calls or files, are covered by the proofs alone.

The configurations use `VIEW` to leave out the output variables: no guard and no
invariant reads them, and action properties are evaluated on every step all the
same. `CHECK_DEADLOCK` is off where the bounds let a system stop: where offers,
sends, calls or connections are counted, or a process may be done.

### Fairness

Timers tick and queues are served (weak fairness of each handler); everything else
is named here. *Client*: the worker and the application end (downloads have
timeouts and a retry limit; an application that never answers is outside the code).
*Web*: a poll ends because the HTTP client has timeouts; a distribution opens its
port or fails; a worker that is stopped ends, and one that has posted its result runs
its callback; the waiting handlers look every 10 ms. *System*: strong fairness of a message's arrival at a
watcher and of its user, *viewer*: of the heartbeats, the answers' arrival and the
clicks, because the bounds on what is under way disable these steps again and again
although the code would not. *Hawkbit*: strong fairness of a feedback, because the
polls and the feedbacks take turns on one queue, which is served in order; the
server ends what it has begun, as `system` shows. *Bus*: timers, callbacks, and a
connection that has begun is completed; nothing of the messages, which may be lost.
*Transfer*: threads run and a connection is answered or times out; nothing of the
accidents. *Prepare*: the worker, its process and the handlers. *Pool*: threads run;
nothing of who is notified. The `master` run needs none.

## Proofs

The theorems hold for every value of the constants that the assumptions of the
modules allow; the runs evaluate these. The assumptions are types: upgrades and
reports are of theirs, `NoId` is no id, bounds are natural numbers. `OtaServer`
takes finitely many domains, each once in `Order`; the viewer is a client that watches
and has a name. On the bus and for the conversions a transport
is one of the three, and `Total` and a queue's depth are positive; in the vehicle the
domains that are present, or may cancel, are among the domains. `HttpTransfer` takes finitely many
files, any number of bytes in each, and a `NoFile` that is neither a number nor
a content. Each module of proofs begins with its invariant, goes on with lemmas on the
operators, has one lemma for each action, and ends with the theorems.

| Module | Theorems |
| --- | --- |
| `OtaServerProofs` | `TypeCorrect`, `ConfirmationsCanEnd`, `CancellationsAgreed`, `SelectionsFresh`, `DetailsMatch`, `ControlFits`, `ResumesAsked`, `SuccessesTrue`, `WhateverReported` |
| `OtaSystemProofs` | `VehicleServer`, `VehicleKeeps`, `VehicleClients`; of the viewer `ServerKept`, `ViewerIsServer`, `PromptsSettle`, `CancelsToldAreCancels` |
| `OtaWebQueueProofs` | `TypeCorrect`, `StatesWorked` |
| `OtaProgressProofs` | `ServerImplemented`, `MasterIsServer`, `TransfersUnderway`, `BarNotAhead` |
| `OtaClientProofs` | `TypeCorrect`, `PhasesUnderway` |
| `OtaMessageProofs` | `TypeCorrect`, `PostedWanted` of hawkbit; `MessagesInOrder` of the bus; `EveryFieldCarried` of the conversions |
| `OtaPrepareProofs` | `TypeCorrect`, `VerificationsTrue`, `ErrorsHaveCause`; of the pool `PoolTypeCorrect`, `NoLostWakeup`, `NobodySleeps`, `JobsOnce`, `PoolRefines` |
| `HttpTransferProofs` | `TypeCorrect`, `PulledAreWhole`, `NeverBehinds`, `SuccessesOffered` |

The `TypeCorrect` theorems prove the type invariant of each of these modules; no run
lists it, as the proof says more.

*Server.* Five invariants and the types are inductive together (`IInv`), with the fact
that the status file is of the state (`StatusFileCurrent`).
`ControlFitsState` needs `ConfirmationCanEnd`, to know which events are ignored
while a result is shown; `CancelUnderway` needs `TypeOK` and that only CANCEL_ASK
leads to CANCEL; `SelectionFresh` needs `DetailsOfUpgrade`. The argument follows the
code: lemmas about the effect of `setState`, `idle`, `pending` and `feedback`
(`SetStateEffect`, `IdleEffect`, `PendingEffect`, `FeedbackEffect`), one lemma for
each handler that cites them, and for the timer callback lemmas on what the walk
leaves (`AfterType`), what the comparisons decide (`SelectedCases`,
`ReleasedCases`) and what the end does (`ConcludeEffect`). `ResumesAsked` adds that
what the file says before it is read, and what was read from it afterwards, is what
the end of the process left (`RInv`); only the timer's walk enters a state in which
the question counts, and of the other steps only a restart, RES_INIT and the answer
change what is remembered (`Remembered`). `SuccessesTrue` is an
action property: whatever a step posts is truthful in the state it starts from,
shown by splitting each posted sequence into its parts. `WhateverReported` takes the
clients away: all of this holds of a server whose clients report anything, with or
without the states that lead to it. The viewer is such a client.

*Viewer.* The server beside the viewer is a server whose clients report anything
(`ServerKept`), so its invariants hold there. What the window shows follows from two
chains (`VInv`). The last detail under way, or the state that the client knows, is
the state of the server (`Told`), since a step tells of every state it goes through,
in order (`DetailsEffect`); a lost connection breaks that, and the report with
discovery mends it. And every call says whether its state is another than that of
the call before, from the state that the window shows to the one that the client
knows (`Chain`), also when the client itself makes a call up because the server is
away. `CancelsToldAreCancels` adds that details are honest of a cancellation
(`HonestDetail`): only CANCEL and CANCEL_ASK come before such a result, both belong to a
request to cancel (`CancelUnderway`), and only an offer ends that (`HonestMoves`).

*Web queue.* That its state is that of its worker needs one fact more: while a handler
waits for the old worker, the state is the one it has set, or the callback of that
worker has reset it (`HandlerSets`). The type invariant has the other half of the story,
which the master needs: files are served only by a worker that distributes, and only a
poll has read anything.

*Master.* `ServerImplemented` is the refinement of `OtaServer` by the server between
its two event queues. Every event that the web queue can put into them is one that
`OtaServer` takes at any time, but for the first: RES_INIT must come before all
others, and once. That is the invariant `Boot`. With it the invariants of `OtaServer`
and its action property hold of the master (`MasterIsServer`). `TransfersUnderway` is
not inductive. The invariant (`MInv`) strengthens it to `WaitsForSomething`, which
counts neither a worker that has posted its result nor one that a stop waits for
(`Busy`), and adds what that needs: the types of the queues, `StateIsWorked`, and that a
REQ_PULL which is still queued when a distribution has ended, and its state is not yet
reset (`Ends`), is followed by the worker's result (`PullFollowed`). The server enters
MR_DISTRIBUTE for that REQ_PULL, and leaves it for the result. The one REQ_PULL that is
not followed is posted behind the result, by a handler whose worker has ended after it
was seen serving (`Outrun`): the exception `behind`. `BarNotAhead`
follows the bar from the offer on (`AInv`). While no files are complete the server is
in no later state than the download and has none to resume; the web queue does nothing
that needs files, is not asked to, and has nothing to tell of it (`EarlyInv`). The
second half of the bar belongs to the deployment, to DONE_ASK and to the states that
keep it (`Over`). A report stays within the part of its phase (`ShareBound`), since a
sum over the domains of parts, each at most one whole, is at most that many wholes
(`SumBound`). That one is an induction over the domains: of the sets that break it one has the
fewest members, and taking one of those away gives another.

*Client.* A phase that is reported is going on (`Going`). Three facts make it
inductive: a client without a package has no worker and waits for no result; it
is never offline or unknown to itself, so a cancellation interrupts a state that
is answered, or a phase (`Sound`); and the phases of the transfer are never those of a
worker that deploys, so an application that ends unheeded ends no phase (`Fits`). The
lemmas follow a handler through `stopThread`, `startThread` and `setState`, in the
middle of which the client is only `Sound`.

*Hawkbit.* During a poll what hawkbit wants, and what the poll has read, belong to
`offered` (`ReadWanted`); reading takes what is wanted at that moment, and a change
of mind adds to `offered`, so what is posted later was wanted during the poll.

*Vehicle.* The server and the clients of `OtaSystem` are those of the open modules,
whose environment may do anything: `VehicleServer` shows that its server is one
whose clients report anything (`AnySpec`), and `VehicleClients` that its clients are
those of `OtaClient`. What they need of the rest of the vehicle is little, but not nothing.
The messages under way are of the protocol and their numbers those of the code
(`MessagesInv`); the clients, and the reports the server takes, are well formed whatever
has arrived (`ShapeInv`); a transfer runs only for a server that is on, and who waits for
an upgrade has offered one (`BackInv`). So the invariants of the server in `IInv` and its
action property hold in the vehicle (`VehicleKeeps`). `PhasesUnderway` is a theorem
about every behaviour of an `OtaClient`, and `VehicleClients` says that the clients have
no other: `PhaseUnderway` holds of them, too. That last step is read, not checked: the
prover does not take a theorem through an INSTANCE.

*Bus.* Four lists are ordered for each kind of message: what a client has heard, what
has passed its check, what waits in its queue, and what the server has sent. Put
after one another they ascend (`Floor`, `Ascends`, in `LinkInv`), and a repeat sends the
last one again. The queue's limit, a break and a restart only leave messages out.
Between the check and the taking there is at most one message (`Alone`); the order
depends on that.

*Conversions.* A report or a detail under way is what the adapter wrote of what was
said or known at that moment; when none is under way both ends agree, or the server
has only just listed the domain (`Unheard`). That a field survives the way there and
back is `WrittenIsGot`, and for the numbers of the states `NumberBack`.

*Preparation.* What a verification posts is decided when its jobs are joined, by what
they left behind. On the way a file that nobody waits for any more is intact
(`Checked`), a status that has failed has a file to blame (`Blamed`), and a job that
is done without having compared its digest has seen a cancellation, which still
stands or was taken back (`Excused`). `Calling` and `Owned` say that these are about
the worker at hand. The exception `resumed` was found by this proof: without it
`Excused` is not inductive, and TLC confirmed that the step can be reached.

*Transfer.* The invariant follows a byte. The next one that the server's end of a
connection sends is the next one that the client's file lacks, behind those on
their way (`Following`, `Answered`); a request asks for that byte (`Asked`); what is
there of a file is a beginning of it (`Beginning`); a url that is done with is a
complete file (`Fetched`). All that holds until a breakpoint is used that does not
agree with its data (`torn`), and is conditional on it; that the data is not behind
its breakpoint (`FileOK`) is not. At the server, while nobody stops it, a url that
is done with was offered, and `listen()` ends only without urls (`ServerOK`). A step
of a connection changes both ends: the lemmas `...Turns` say what it does to the
server's record, `FileSees` what the client makes of that, and `ConnStepKeeps` joins
them. There is one lemma `...Keeps` for each step of a job, a call or the file
server.

*Pool.* The inductive invariant adds to the three invariants that a job is in one
place only (not given, queued, at one thread, or done) and that a thread exits only
when the pool is shut down and its queue empty. `PoolRefines`: jobs queued or running
are `open` in `ForkJoin`, and joining is the owner's `join` step.

### Only model-checked

- Liveness and what rests on ENABLED are out of the prover's reach: `PhaseEnds`,
  `HandlersReturn`, `ActionsEnd`, `UpgradeEnds`, `CancelEnds`, `ControlHeard`,
  `StatusHeard`, `StopEnds`, `CallEnds`, `BothFinish`, `PreparationEnds`, `QuestionsEnd`,
  `ShutdownReturns`.
- `DeploysComplete`, `DependsFirst`, `SuccessIsReal` of the vehicle. They relate the
  files of a client to the reports that the server has heard, and hold for the one
  upgrade of a run. `DeploysComplete` does not hold for every value of the constants:
  with a second upgrade TLC finds the two ways named below (*Reports of an earlier
  upgrade*). `DependsFirst` rests on the same reports, and so does `SuccessIsReal`: a
  report that is under way speaks of what its client had installed when it was sent.

## What the code does not guarantee

Modelling it has shown limits of the code. They are steps of the models, and the
properties name them as exceptions or are about something else.

- *Resuming a pull.* The master's file server answers a range with the length of the
  whole file, so a resumed fetch waits for bytes that never come until its timeout;
  a range up to the size asks for one byte too many, and the provider goes round
  behind the end until the client leaves. `BothFinish` is therefore about pulls
  without accidents.
- *Breakpoints.* The data is flushed before its breakpoint, and a breakpoint is
  truncated when a call opens it. A death in between leaves one that does not agree
  with its data (`torn`). A cancelled pull may leave a breakpoint at the file's end.
- *Jobs without an owner.* `verify()` and `download()` may return while their pool
  has threads to join; the process ends there (`Terminate`).
- *Patches.* What the patches make of the files is not verified; the list of patched
  files stays when the client is interrupted after patching, and the patches of the
  next upgrade are then skipped.
- *A cancellation taken back.* CTL_DOWNLOAD and CTL_DEPLOY clear `hasCancelAction`
  also when the message is otherwise ignored, and all before the worker is stopped. A worker that has skipped files for the
  cancellation then reports an error without a bad file (`resumed`), and one that
  stopped for it leaves without a word (`quit`).
- *Results without a request.* The results of the web queue carry neither an upgrade
  nor a request: a late one moves the server into a phase (`cut`), or out of a
  cancellation that the user agreed to (`Overtaken`). Answers of the user carry no
  question.
- *Reports of an earlier upgrade.* A report says which phase is done, not of which
  upgrade, and a url holds no upgrade either. After a restart of the server the
  `WR_WAIT` of a client that has the earlier upgrade's files counts for the next one;
  or the messages that clear a failed upgrade are still under way while the next
  one's files are served to a client that is downloading. In both cases the client
  deploys what it has: CTL_DEPLOY stops a download that runs, and `deploy()` asks only
  that the files exist, not that they are whole.
- *Interrupted deployments.* Going idle at the start saves MR_IDLE over the MR_DEPLOY
  in the status file, so a second end of the process before the user has accepted loses
  the deployment (`interrupted`). The file holds the depends of the moment the
  deployment was entered: after a resumption a domain may wait for one that had
  finished. It does not name the upgrade: whichever is offered next is asked to be
  resumed, with those depends. Refusing to resume goes to MR_PENDING, so the question
  comes back with the next walk of the timer.
- *Domains left out of the depends.* The depends are computed from deploy clocks and
  WR_WAIT: of three domains one may deploy beside the one it requires (`slipped`).
- *Domains deployed unseen.* One that deploys between two ticks has no deploy clock
  and is waited for (`Overlooked`); a server that starts again while its domains
  finish deploying answers the next offer with a failure, since no domain has an
  older version any more.
- *Cancellations refused when idle.* `idle()` does not forget the id of a
  cancellation; if the answer to hawkbit is lost, the same cancellation is dropped
  from then on.
- *States before workers.* The web queue sets its state before it waits for the old
  worker, whose callback may reset it; a pull may be announced for a distribution that
  has just failed (`behind`).
- *Number 0.* The numbers of the messages wrap to 0, which is also where a client
  begins: one that starts while the last number is 0 does not hear that message until
  there is another (`Mute`).
- *Stops that are not heard.* `stopThread()` reads the handle of a distribution without
  a lock: before the server runs its `stop()` does nothing, and after the worker's end
  it is called on what is no longer there (`deaf`, `ended`).
- *Stopping twice.* `httplib::Server::stop()` asserts that its socket is open; the
  release of the last url and a stop from outside may both call it.
- *Numbers of states.* The interface definitions in `idls` number the states of a
  client otherwise than `domain.h`, whose numbers travel.
- *Late reports.* A report that is handled late is taken for the phase of the web
  queue at that moment and may leave the range that a comment names for the phase.
- *Details for a domain of the upgrade.* A watcher that is listed in the upgrade is
  not sent the last details again when it asks.

## Plan

Done: the components above, and the theorems. What is left: `DependsFirst` and
`SuccessIsReal` of the vehicle for a single upgrade, for which the theorems of
`OtaServerProofs` and `OtaClientProofs` are the two ends and the messages under way the
middle; and an abstract life cycle of an upgrade (offered, agreed, transferred,
deployed, closed) that `OtaServer` implements, beside its invariants.

## Not modelled

- The two trees of the viewer's window, and its labels that only copy a field.
- How versions are compared; a version is what the comparison with the package's says
  (newer, equal, neither).
- `Details::sort`: its comparison says that a detail comes before one that requires
  it *or* has a later name, which both hold for some pairs, so the result depends on
  the order of the packages. No guard relies on it: the models take any order.
- The custom adapters are stubs; `examples/sample` and `sample_c` are stubs or run a
  script; `tests/` has no test.
- The rest of `httplib.hpp` (parsing, TLS, sockets), the digest functions, the
  program that applies patches, JSON: libraries, modelled by what the code takes
  from them.
- Behaviour the language leaves undefined: what comes after a `stop()` of a destroyed
  server (`ended` is where the model stops there), the text the viewer reads without a
  lock.
- Two upgrades with several domains and a cancellation in one run: beyond TLC with
  the whole system; the properties that need them are checked one at a time.
