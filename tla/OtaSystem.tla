----------------------------- MODULE OtaSystem ------------------------------
(***************************************************************************)
(* The whole upgrade: the server (OtaServer), a client for each domain     *)
(* (OtaClient), and the bus between them (the fdbus, vsomeip and ros       *)
(* adapters).                                                              *)
(*                                                                         *)
(* A control message is broadcast to the clients that have subscribed; it  *)
(* arrives later, in order.  A client that is connected may report already *)
(* before its subscription has arrived, and what is broadcast until then   *)
(* it never gets.  What is under way is lost when a connection breaks.     *)
(*                                                                         *)
(* The web queue is what the server sees of it when its events come at     *)
(* once (OtaMaster has the delays): it downloads, verifies, gets ready to  *)
(* serve, and serves until every domain of the upgrade has its files.      *)
(***************************************************************************)
EXTENDS OtaServer

CONSTANTS
  CancelEnable,  \* the clients whose application allows to cancel
  VersionOf,     \* the version of the packages of an upgrade
  Total,         \* MIFSA_OTA_MESSAGE_TOTAL_COUNT: message numbers are 0 .. Total
  Vehicles,      \* bounds: the domains there are and what happens; see `vehicle'
  MaxEvents      \* a bound: no message arrives at a client with so long a queue

ASSUME SystemAssumption ==
  /\ CancelEnable \subseteq Domain
  /\ VersionOf \in [Id -> Nat]
  /\ Total \in Nat /\ MaxEvents \in Nat
  /\ \A v \in Vehicles : v.present \subseteq Domain

VARIABLES
  vehicle,           \* (fixed) [present: the domains there are, cancels: whether the
                     \* backend cancels, offers and faults: bounds to these]
  client, reported,  \* of OtaClient
  number,            \* m_hpr->controlMessageId of the server
  link,              \* each client: "down", "joining" (connected), "up" (subscribed)
  down, up,          \* the messages under way to and from each client
  transfer,          \* what the web queue does
  served,            \* the domains whose files have been sent
  wanted,            \* what the backend waits for
  offers, faults     \* upgrades offered; failures, restarts and broken connections

\* What a control message holds for the clients.
Contents ==
  { m \in [control : Control \ {"CTL_UNKNOWN"}, id : Id \cup {NoId},
           domains : SUBSET Domain, depends : SUBSET Domain] :
      m.id = NoId => m.domains = {} }

C == INSTANCE OtaClient WITH
       Name <- Domain, Patched <- {}, Controls <- Contents, Shown <- ServerState,
       MaxNumber <- Total, MaxQueue <- MaxEvents

clientsVars == <<client, reported>>
busVars == <<number, link, down, up>>
backVars == <<transfer, served, wanted, offers, faults, vehicle>>
systemVars == <<vars, clientsVars, busVars, backVars>>

-----------------------------------------------------------------------------
(* What follows a step of the server: its messages and its web events. *)

\* What the bus carries of a message: sendControlMessage and the conversions of
\* the adapters.
Carried(message, n) ==
  [ number |-> n,
    content |-> [ control |-> message.control, id |-> message.upgrade.id,
                  domains |-> message.upgrade.domains,
                  depends |-> message.depends ] ]

\* The messages as they leave, numbered from n on; a cached one repeats the number.
Numbered(n, messages) ==
  LET fresh(i) == {k \in 1 .. i : ~messages[k].cached}
  IN [ i \in 1 .. Len(messages) |->
         Carried(messages[i], (n + Cardinality(fresh(i))) % (Total + 1)) ]

Broadcast ==
  LET out == Numbered(number, sent')
  IN /\ number' = IF out = <<>> THEN number ELSE out[Len(out)].number
     /\ down' = [d \in Domain |-> IF link[d] = "up" THEN down[d] \o out ELSE down[d]]

\* What the web queue does for an event of the server.
Does == [ REQ_STOP |-> "none", REQ_DOWNLOAD |-> "download",
          REQ_VERIFY |-> "verify", REQ_DISTRIBUTE |-> "distribute" ]

\* The web queue goes over to what the last such event says, or to `otherwise';
\* a closing feedback ends what the backend waits for.
Web(otherwise, else) ==
  LET demands == {i \in DOMAIN posted' : posted'[i].event \in DOMAIN Does}
  IN /\ \/ demands = {} /\ transfer' = otherwise
        \/ \E i \in demands :
             (\A k \in demands : k <= i) /\ transfer' = Does[posted'[i].event]
     /\ served' = IF transfer' = "distribute" THEN {} ELSE served
     /\ wanted' = IF \E i \in DOMAIN posted' : IsClosing(posted'[i])
                  THEN "nothing" ELSE else

Answering == Broadcast /\ Web(transfer, wanted) /\ UNCHANGED <<link, offers, vehicle>>

-----------------------------------------------------------------------------
(* The server. *)

\* The version a client reports, beside that of its package.
Compared(v) ==
  IF job.upgrade = NoUpgrade THEN "none"
  ELSE IF v = VersionOf[job.upgrade.id] THEN "new"
  ELSE IF v < VersionOf[job.upgrade.id] THEN "old" ELSE "bad"

\* The server handles the first domain message of d.
Receive(d) ==
  /\ up[d] # <<>>
  /\ up' = [up EXCEPT ![d] = Tail(@)]
  /\ LET m == Head(up[d])
         r == [ state |-> m.state, last |-> m.last, version |-> Compared(m.version),
                error |-> m.error ]
     IN IF m.answer = "ANS_UNKNOWN" \/ state \notin mrStateIsAsk
        THEN ResDomain(d, r, m.discovery)
        ELSE ResAnswer(d, r, m.discovery, m.answer)
  /\ Answering
  /\ UNCHANGED <<clientsVars, faults>>

\* The timer ticks in time, and the silent are really not there; or, as a fault, the
\* state has lasted too long.
Tick ==
  /\ \/ /\ faults' = faults
        /\ \E silent \in SUBSET {d \in job.heard : link[d] = "down"} :
             ProcessDomains(FALSE, silent, {})
     \/ /\ faults < vehicle.faults /\ faults' = faults + 1
        /\ state \in Limited
        /\ ProcessDomains(TRUE, {}, {})
  /\ Answering
  /\ UNCHANGED <<clientsVars, up>>

\* The web queue has done what it was asked for.
WebDone ==
  /\ \/ state = "MR_OFFLINE" /\ ResInit /\ Web(transfer, wanted)
     \/ transfer = "download" /\ ResDownloadDone /\ Web("none", wanted)
     \/ transfer = "verify" /\ ResVerifyDone /\ Web("none", wanted)
     \/ transfer = "distribute" /\ ReqPull(TRUE) /\ Web("serve", wanted)
     \/ /\ transfer = "serve" /\ job.upgrade.domains \subseteq served
        /\ ResDistributeDone /\ Web("none", wanted)
  /\ Broadcast
  /\ UNCHANGED <<clientsVars, link, up, offers, faults, vehicle>>

WebFails ==
  /\ transfer # "none"
  /\ faults < vehicle.faults /\ faults' = faults + 1
  /\ ResError
  /\ Broadcast /\ Web("none", wanted)
  /\ UNCHANGED <<clientsVars, link, up, offers, vehicle>>

\* The backend offers an upgrade, or wants it cancelled.
Backend ==
  /\ state # "MR_OFFLINE"
  /\ \/ /\ wanted = "nothing" /\ offers < vehicle.offers /\ offers' = offers + 1
        /\ \E u \in Upgrades : u.domains = vehicle.present /\ ReqUpgrade(u)
        /\ Web(transfer, "deploy")
     \/ /\ vehicle.cancels /\ wanted = "deploy" /\ offers' = offers
        /\ ReqCancel(lastlId)
        /\ Web(transfer, "cancel")
  /\ Broadcast
  /\ UNCHANGED <<clientsVars, link, up, faults, vehicle>>

\* The process starts again; what the backend waits for it will offer again.
ServerRestart ==
  /\ faults < vehicle.faults /\ faults' = faults + 1
  /\ Restart
  /\ number' = 0
  /\ link' = [d \in Domain |-> "down"]
  /\ down' = [d \in Domain |-> <<>>] /\ up' = [d \in Domain |-> <<>>]
  /\ transfer' = "none" /\ wanted' = "nothing"
  /\ offers' = IF wanted = "nothing" THEN offers ELSE offers - 1
  /\ UNCHANGED <<clientsVars, served, vehicle>>

-----------------------------------------------------------------------------
(* The clients. *)

Here(d) == d \in vehicle.present

\* What a step of d sends goes up, if it is connected (sendDomain).
Sending(d) ==
  /\ reported' # <<>> <=> link[d] # "down"
  /\ up' = [up EXCEPT ![d] = @ \o reported']
  /\ UNCHANGED <<vars, number, link, down, backVars>>

Beside == UNCHANGED <<vars, busVars, backVars>>

Handle(d) ==
  \/ C!Handle(d) /\ ~C!FirstIs(d, "REQ_DETAIL") /\ Sending(d)
  \/ C!ReqDetail(d) /\ Beside

\* The server has got just this report from d, and d knows no reason to ask.
UpToDate(d) ==
  /\ link[d] # "down" /\ ~client[d].needDiscovery /\ d \in job.heard
  /\ LET c == client[d]
     IN job.report[d] = [ state |-> c.state, last |-> c.last,
                          version |-> Compared(c.version), error |-> c.error ]

\* The timer of d; bounds: the report before has been handled, and the server has not
\* been told the same already.
SendHeartbeat(d) ==
  Here(d) /\ up[d] = <<>> /\ ~UpToDate(d) /\ C!Heartbeat(d) /\ Sending(d)

\* The worker goes on.  A download asks the server for files that are complete, too;
\* it succeeds when they have been sent, or were there, and fails if the server does
\* not serve.
WorkerStep(d) ==
  /\ C!WorkerStep(d)
  /\ client[d].work = "download" /\ d \notin served =>
       /\ transfer # "serve"
       /\ \/ client[d].disk[client[d].place] = "full"
          \/ client'[d].disk[client[d].place] # "full"
  /\ Beside

\* The last byte of the files of d is sent.
Serve(d) ==
  /\ transfer = "serve" /\ client[d].work = "download"
  /\ d \notin served /\ served' = served \cup {d}
  /\ UNCHANGED <<vars, clientsVars, busVars, transfer, wanted, offers, faults, vehicle>>

\* A control message arrives, and is dropped if its number is that of the last one.
Arrive(d) ==
  /\ down[d] # <<>> /\ C!Room(d)
  /\ down' = [down EXCEPT ![d] = Tail(@)]
  /\ LET m == Head(down[d])
     IN IF m.number = client[d].messageId
        THEN UNCHANGED clientsVars
        ELSE C!ProcessControlMessage(d, m.content, m.number)
  /\ UNCHANGED <<vars, number, link, up, backVars>>

\* The user sees the question and answers it; a bound: the answer before is through.
User(d) ==
  /\ link[d] = "up" /\ C!Room(d)
  /\ \/ /\ client[d].serverState # state
        /\ {client[d].serverState, state} \cap mrStateIsAsk # {}
        /\ C!ProcessDetailMessage(d, state)
     \/ /\ client[d].queue = <<>> /\ up[d] = <<>>
        /\ \E answer \in {"ANS_ACCEPT", "ANS_REFUSE"} : C!PostDetailAnswer(d, answer)
  /\ Beside

\* A connection is made: the client is connected, then its subscription arrives.
Join(d) ==
  /\ Here(d) /\ link[d] # "up"
  /\ link' = [link EXCEPT ![d] = IF @ = "down" THEN "joining" ELSE "up"]
  /\ UNCHANGED <<vars, clientsVars, number, down, up, backVars>>

\* The connection of d breaks, or its process starts again.
Break(d) ==
  /\ faults < vehicle.faults /\ faults' = faults + 1
  /\ link[d] # "down" /\ link' = [link EXCEPT ![d] = "down"]
  /\ down' = [down EXCEPT ![d] = <<>>] /\ up' = [up EXCEPT ![d] = <<>>]
  /\ UNCHANGED clientsVars \/ C!Restart(d)
  /\ UNCHANGED <<vars, number, transfer, served, wanted, offers, vehicle>>

-----------------------------------------------------------------------------
SystemInit ==
  /\ Init /\ C!Init
  /\ number = 0
  /\ vehicle \in Vehicles
  /\ link = [d \in Domain |-> IF d \in vehicle.present THEN "up" ELSE "down"]
  /\ down = [d \in Domain |-> <<>>] /\ up = [d \in Domain |-> <<>>]
  /\ transfer = "none" /\ served = {} /\ wanted = "nothing"
  /\ offers = 0 /\ faults = 0

ClientStep(d) ==
  Handle(d) \/ SendHeartbeat(d) \/ WorkerStep(d) \/ Serve(d) \/ Arrive(d) \/ User(d)

SystemNext ==
  \/ Tick \/ WebDone \/ WebFails \/ Backend \/ ServerRestart
  \/ \E d \in Domain : Receive(d) \/ ClientStep(d) \/ Join(d) \/ Break(d)

SystemSpec == SystemInit /\ [][SystemNext]_systemVars

\* Timers tick, queues are served, what is sent arrives, workers finish, the user
\* looks at the questions and answers.  (A user who answers again and again, or a
\* message on its way, is kept off by the bounds again and again, but not for ever.)
SystemFairSpec ==
  /\ SystemSpec
  /\ WF_systemVars(Tick) /\ WF_systemVars(WebDone)
  /\ \A d \in Domain :
       /\ WF_systemVars(Here(d) /\ Receive(d)) /\ WF_systemVars(SendHeartbeat(d))
       /\ WF_systemVars(Here(d) /\ Handle(d)) /\ WF_systemVars(Here(d) /\ Arrive(d))
       /\ WF_systemVars(Here(d) /\ (WorkerStep(d) \/ Serve(d)))
  /\ \A d \in Watcher :
       SF_systemVars(Here(d) /\ Arrive(d)) /\ SF_systemVars(Here(d) /\ User(d))

-----------------------------------------------------------------------------
(* Properties. *)

Installed(d, id) == client[d].installed = VersionOf[id]

\* What the backend is told holds in the vehicle itself, not only in the reports: a
\* successful upgrade is installed by every domain, a cancelled deployment by none
\* (processDomains, feedback; postDeployDone, postCancelDone of client.cpp).
Real(e) ==
  IsClosing(e) /\ e.result = "RS_SUCCESS" =>
    /\ e.type = "TP_DEPLOY" => \A d \in job.upgrade.domains : Installed(d, e.id)
    /\ e.type = "TP_CANCEL" /\ state = "MR_CANCEL" =>
         \A d \in job.upgrade.domains : ~Installed(d, job.upgrade.id)
SuccessIsReal == [][ \A i \in DOMAIN posted' : Real(posted'[i]) ]_systemVars

\* What a domain hands to its application is the package it has fetched completely,
\* whatever was cleared, begun again or cut off by a restart before (CTL_DEPLOY, deploy,
\* download of client.cpp).
DeploysComplete ==
  \A d \in Domain : client[d].work = "install" => client[d].disk[client[d].place] = "full"

\* The server waits for a domain that it has never seen deploying: it deployed
\* between two ticks, has no deploy clock, and stays among the depends.
Overlooked ==
  /\ state = "MR_DEPLOY"
  /\ \E d \in job.listed \ job.deploying :
       d \in job.depends /\ detectVersionEqual(job.report[d])

\* No upgrade is under way for ever, without any timeout, unless something has failed:
\* nobody waits for a message that does not come (the handlers of both sides).
UpgradeEnds == []<>(wanted # "deploy" \/ Overlooked \/ faults > 0)

\* A transfer that is not stopped for a cancellation may still take the server on,
\* out of the state in which it would hear of the domains' cancellation.
Overtaken ==
  type = "TP_CANCEL" /\ ~hasFeed /\ state \notin {"MR_CANCEL_ASK", "MR_CANCEL"}

\* A cancellation ends, if the user answers, and without any timeout, unless it was
\* overtaken or the worker of a client has left in silence (REQ_CANCEL, configAnswer,
\* CTL_CANCEL, hasCancelAction).
CancelEnds ==
  []<>(wanted # "cancel" \/ Overtaken \/ \E d \in Domain : client[d].quit)
=============================================================================
