------------------------------ MODULE OtaHawkbit -----------------------------
(***************************************************************************)
(* The dialogue of the OTA master with hawkbit, request by request:        *)
(* server/src/hawkbit_queue.cpp over core/message_http.cpp.                *)
(*                                                                         *)
(* A poll asks for the base resource, which links to what else there is:   *)
(* it is sent the attributes if it asks for them, then the deployment or   *)
(* the cancellation is read, converted, and posted to the server.          *)
(* Between any two of these hawkbit may change its mind and the server may *)
(* change its upgrade.  A request fails when the connection does; the      *)
(* status of an answer is not looked at, so an error page is an answer     *)
(* like another.                                                           *)
(*                                                                         *)
(* The server is what hawkbit sees of it (OtaServer has the rest): it has  *)
(* an upgrade, ends it or its cancellation some time, and tells so once.   *)
(* A feedback that closes nothing changes nothing, and is left out, as are *)
(* names, hashes, versions and the interval of the polls.                  *)
(***************************************************************************)
EXTENDS Integers, Sequences, FiniteSets

CONSTANTS
  Id,          \* the ids of actions
  NoId,        \* the empty id
  Documents,   \* what hawkbit may describe an action with
  Subscribed,  \* whether a viewer confirms the results (detailSubscribed)
  MaxOffers,   \* bounds: hawkbit changes its mind so often,
  MaxFaults,   \* so many requests fail, or meet an error page, or restarts,
  MaxEvents    \* and no poll begins with so many events under way

\* A document: the words for the methods, the domains of the chunks, and how the
\* artifacts are linked.
Word == {"attempt", "forced", "other"}
LinkName == {"download", "download-http"}
Document ==
  [ id : Id, download : Word, update : Word, window : BOOLEAN,
    links : SUBSET LinkName ]

NoDocument == [id |-> NoId]
NoUpgrade == [id |-> NoId]

ASSUME HawkbitAssumption ==
  /\ NoId \notin Id
  /\ Documents \subseteq Document
  /\ Subscribed \in BOOLEAN
  /\ {MaxOffers, MaxFaults, MaxEvents} \subseteq Nat

VARIABLES
  action, cancel,  \* hawkbit: the document of the action it wants, if any; its end
  asks,            \* hawkbit asks for the attributes
  at,              \* the request of the poll that is under way
  linked,          \* what the base resource links to
  body,            \* the document that was read
  requests,        \* the closing feedbacks that wait for the poll
  inbox,           \* the events the server has still to handle
  server,          \* its upgrade and cancel id, and what it does
  offered,         \* history: what hawkbit wanted during the poll
  offers, faults   \* counters for the bounds

backendVars == <<action, cancel, asks>>
pollVars == <<at, linked, body>>
masterVars == <<inbox, server>>
limitVars == <<offers, faults>>
hawkbitVars == <<backendVars, pollVars, requests, masterVars, offered, limitVars>>

\* The server at rest.  A cancellation of nothing may have left its id.
Resting(cancelId) == [state |-> "idle", upgrade |-> NoUpgrade, cancelId |-> cancelId]

NoLink == [kind |-> "none", id |-> NoId]

Fault == faults < MaxFaults /\ faults' = faults + 1

-----------------------------------------------------------------------------
(* transformUpgrade *)
MethodOf(word) ==
  CASE word = "attempt" -> "MTHD_ATTEMPT"
    [] word = "forced" -> "MTHD_FORCED"
    [] OTHER -> "MTHD_SKIP"

\* Where the server gets the files: the secure link if there is one.
WebAddress(links) ==
  CASE "download" \in links -> "download"
    [] "download-http" \in links \ {"download"} -> "download-http"
    [] OTHER -> ""

\* Mutant: the method of the download is taken for both.
TransformUpgradeOnce(doc) ==
  [ id |-> doc.id, download |-> MethodOf(doc.download),
    deploy |-> MethodOf(doc.download), maintenance |-> doc.window,
    web_url |-> WebAddress(doc.links) ]
TransformUpgrade(doc) ==
  [ id |-> doc.id, download |-> MethodOf(doc.download),
    deploy |-> MethodOf(doc.update), maintenance |-> doc.window,
    web_url |-> WebAddress(doc.links) ]

\* Upgrade::operator== looks at the methods and the maintenance, but of a file not at
\* its address on the web.
SameUpgrade(u, v) == [u EXCEPT !.web_url = ""] = [v EXCEPT !.web_url = ""]

-----------------------------------------------------------------------------
(* A poll: detect *)

Post(event) == inbox' = Append(inbox, event)

PollBegins ==
  /\ at = "free"
  /\ Len(inbox) + Len(requests) < MaxEvents
  /\ at' = "base" /\ linked' = NoLink /\ body' = NoDocument
  /\ offered' = {<<action, cancel>>}
  /\ UNCHANGED <<backendVars, requests, masterVars, limitVars>>

\* The links of hawkbit: an action that is being cancelled is not offered.
Links ==
  IF action = NoDocument THEN NoLink
  ELSE [kind |-> IF cancel THEN "cancel" ELSE "deployment", id |-> action.id]

Follow(l) ==
  /\ linked' = l
  /\ at' = IF l.kind = "none" THEN "free" ELSE l.kind
  /\ body' = body

\* The base resource; without any link there is nothing to do, and an error page has
\* none.
AnswerBase ==
  /\ at = "base"
  /\ \/ /\ asks \/ Links # NoLink
        /\ IF asks THEN at' = "put" /\ linked' = Links /\ body' = body
                   ELSE Follow(Links)
        /\ UNCHANGED <<faults, inbox>>
     \/ /\ Fault \/ (faults' = faults /\ ~asks /\ Links = NoLink)
        /\ Post([event |-> "REQ_IDLE"])
        /\ Follow(NoLink)
     \/ Fault /\ inbox' = inbox /\ Follow(NoLink)
  /\ UNCHANGED <<backendVars, requests, server, offered, offers>>

\* The attributes; the poll goes on after an error page, and not after a failure.
PutAttributes ==
  /\ at = "put"
  /\ \/ asks' = FALSE /\ faults' = faults /\ Follow(linked)
     \/ asks' = asks /\ Fault /\ Follow(linked)
     \/ asks' = asks /\ Fault /\ Follow(NoLink)
  /\ UNCHANGED <<action, cancel, requests, masterVars, offered, offers>>

\* The deployment or the cancellation; one that is not there any more is answered with
\* an error page, which has no id.
GetLinked ==
  /\ at \in {"deployment", "cancel"}
  /\ IF Links = linked
     THEN \/ at' = "read" /\ body' = action /\ linked' = linked /\ faults' = faults
          \/ Fault /\ Follow(NoLink)
     ELSE faults' = faults /\ Follow(NoLink)
  /\ UNCHANGED <<backendVars, requests, masterVars, offered, offers>>

\* postUpgrade and postCancel, which compare with what the server has by now.
\* Mutant: only what the server has can be cancelled.
PostReadOwn ==
  /\ at = "read"
  /\ IF linked.kind = "cancel"
     THEN IF server.cancelId = linked.id \/ server.upgrade.id # linked.id
          THEN inbox' = inbox
          ELSE Post([event |-> "REQ_CANCEL", id |-> linked.id])
     ELSE IF server.upgrade # NoUpgrade
               /\ SameUpgrade(server.upgrade, TransformUpgrade(body)) THEN inbox' = inbox
          ELSE Post([event |-> "REQ_UPGRADE", upgrade |-> TransformUpgrade(body)])
  /\ Follow(NoLink)
  /\ UNCHANGED <<backendVars, requests, server, offered, limitVars>>
PostRead ==
  /\ at = "read"
  /\ IF linked.kind = "cancel"
     THEN IF server.cancelId = linked.id THEN inbox' = inbox
          ELSE Post([event |-> "REQ_CANCEL", id |-> linked.id])
     ELSE IF server.upgrade # NoUpgrade
               /\ SameUpgrade(server.upgrade, TransformUpgrade(body)) THEN inbox' = inbox
          ELSE Post([event |-> "REQ_UPGRADE", upgrade |-> TransformUpgrade(body)])
  /\ Follow(NoLink)
  /\ UNCHANGED <<backendVars, requests, server, offered, limitVars>>

-----------------------------------------------------------------------------
(* A closing feedback: feedback. *)

\* hawkbit takes it: the action is over, unless its cancellation is refused.
Received(f) ==
  /\ asks' = asks
  /\ IF f.id # action.id THEN UNCHANGED <<action, cancel>>
     ELSE IF f.type = "TP_CANCEL" /\ f.result = "RS_FAILURE"
          THEN action' = action /\ cancel' = FALSE
          ELSE action' = NoDocument /\ cancel' = FALSE

\* The POST arrives; or it fails or is refused; or only its answer is lost.  The error
\* that a failure posts makes the server close what it has, as it may anyway.
Feedback ==
  /\ at = "free"
  /\ requests # <<>>
  /\ requests' = Tail(requests)
  /\ \/ Received(Head(requests)) /\ (faults' = faults \/ Fault)
     \/ UNCHANGED backendVars /\ Fault
  /\ UNCHANGED <<pollVars, masterVars, offered, offers>>

-----------------------------------------------------------------------------
(* The server. *)

Closing(type, id, result) == [type |-> type, id |-> id, result |-> result]

\* feedback(): the result waits to be confirmed, or the server is idle at once; idle()
\* clears nothing when it is idle already.
Concluded(s) ==
  IF Subscribed THEN [s EXCEPT !.state = "confirming"]
  ELSE IF s.state = "idle" THEN s ELSE Resting(NoId)

Handles(event) ==
  inbox # <<>> /\ Head(inbox).event = event /\ inbox' = Tail(inbox)

\* REQ_IDLE and REQ_UPGRADE are ignored while a result waits to be confirmed.
ReqIdle ==
  /\ Handles("REQ_IDLE")
  /\ server' = IF server.state \in {"idle", "confirming"} THEN server ELSE Resting(NoId)
  /\ requests' = requests

ReqUpgrade ==
  /\ Handles("REQ_UPGRADE")
  /\ server' = IF server.state = "confirming" THEN server
               ELSE [server EXCEPT !.state = "busy", !.upgrade = Head(inbox).upgrade]
  /\ requests' = requests

\* REQ_CANCEL: the user is asked, or it is granted at once, or refused, and the action
\* with it.
ReqCancel ==
  /\ Handles("REQ_CANCEL")
  /\ LET id == Head(inbox).id
         s == [server EXCEPT !.cancelId = id]
     IN \/ /\ s.state \in {"busy", "cancelling"}
           /\ server' = [s EXCEPT !.state = "cancelling"]
           /\ requests' = requests
        \/ /\ s.state # "idle"
           /\ server' = Concluded(s)
           /\ requests' = Append(requests, Closing("TP_CANCEL", id, "RS_SUCCESS"))
        \/ /\ s.state = "idle"
           /\ server' = Concluded(s)
           /\ requests' = requests \o << Closing("TP_CANCEL", id, "RS_FAILURE"),
                                         Closing("TP_DEPLOY", id, "RS_FAILURE") >>

\* The upgrade, or its cancellation, comes to an end.
Closes ==
  /\ server.state \in {"busy", "cancelling"}
  /\ inbox' = inbox
  /\ server' = Concluded(server)
  /\ \E result \in {"RS_SUCCESS", "RS_FAILURE"} :
       requests' = Append(requests,
         CASE server.state = "busy" -> Closing("TP_DEPLOY", server.upgrade.id, result)
           [] server.state = "cancelling" -> Closing("TP_CANCEL", server.cancelId, result))

\* The user confirms the result.
Confirms ==
  /\ server.state = "confirming"
  /\ server' = Resting(NoId)
  /\ UNCHANGED <<inbox, requests>>

Beside == UNCHANGED <<backendVars, pollVars, offered, limitVars>>

HandleEvent == (ReqIdle \/ ReqUpgrade \/ ReqCancel) /\ Beside
Conclude == Closes /\ Beside
Confirm == Confirms /\ Beside

\* The process of the server ends, and starts again.
MasterRestart ==
  /\ Fault
  /\ at' = "free" /\ linked' = NoLink /\ body' = NoDocument
  /\ requests' = <<>> /\ inbox' = <<>> /\ server' = Resting(NoId)
  /\ UNCHANGED <<backendVars, offered, offers>>

-----------------------------------------------------------------------------
(* hawkbit. *)

\* An action is assigned, or described anew; its cancellation is requested; it is
\* withdrawn; the attributes are asked for.
Backend ==
  /\ offers < MaxOffers /\ offers' = offers + 1
  /\ \/ \E d \in Documents :
          /\ d # action /\ (cancel => d.id # action.id)
          /\ action' = d /\ cancel' = FALSE /\ asks' = asks
     \/ action # NoDocument /\ ~cancel /\ cancel' = TRUE /\ UNCHANGED <<action, asks>>
     \/ action # NoDocument /\ action' = NoDocument /\ cancel' = FALSE /\ asks' = asks
     \/ ~asks /\ asks' = TRUE /\ UNCHANGED <<action, cancel>>
  /\ offered' = offered \cup {<<action', cancel'>>}
  /\ UNCHANGED <<pollVars, requests, masterVars, faults>>

HawkbitInit ==
  /\ action = NoDocument /\ cancel = FALSE /\ asks = TRUE
  /\ at = "free" /\ linked = NoLink /\ body = NoDocument
  /\ requests = <<>> /\ inbox = <<>> /\ server = Resting(NoId)
  /\ offered = {}
  /\ offers = 0 /\ faults = 0

PollStep == PollBegins \/ AnswerBase \/ PutAttributes \/ GetLinked \/ PostRead

HawkbitNext ==
  PollStep \/ Feedback \/ HandleEvent \/ Conclude \/ Confirm \/ MasterRestart \/ Backend

HawkbitSpec == HawkbitInit /\ [][HawkbitNext]_hawkbitVars

\* The timer polls, hawkbit answers, a feedback is not overtaken by polls for ever (the
\* queue is in order), the server handles its events, and ends what it has begun
\* (OtaSystem, UpgradeEnds and CancelEnds), and the user confirms.
Fairness ==
  /\ WF_hawkbitVars(PollStep) /\ SF_hawkbitVars(Feedback)
  /\ WF_hawkbitVars(HandleEvent) /\ WF_hawkbitVars(Conclude) /\ WF_hawkbitVars(Confirm)

HawkbitFairSpec == HawkbitSpec /\ Fairness

-----------------------------------------------------------------------------
(* Properties. *)

TypeOK ==
  /\ action \in Documents \cup {NoDocument}
  /\ {cancel, asks} \subseteq BOOLEAN
  /\ at \in {"free", "base", "put", "deployment", "cancel", "read"}
  /\ at \in {"deployment", "cancel"} => linked.kind = at
  /\ at = "read" => body.id = linked.id
  /\ server.state \in {"idle", "busy", "cancelling", "confirming"}
  /\ server.state = "busy" => server.upgrade.id \in Id
  /\ server.state = "cancelling" => server.cancelId \in Id
  /\ offers \in 0 .. MaxOffers /\ faults \in 0 .. MaxFaults

\* What a document asks for, in terms of an upgrade.
Describes(doc, u) ==
  /\ u.id = doc.id
  /\ (u.download = "MTHD_FORCED") = (doc.download = "forced")
  /\ (u.deploy = "MTHD_FORCED") = (doc.update = "forced")
  /\ (u.deploy = "MTHD_SKIP") = (doc.update \notin {"attempt", "forced"})
  /\ IF doc.links = {} THEN u.web_url = "" ELSE u.web_url \in doc.links

\* The server is told only of what hawkbit wanted at some time during the poll: an
\* upgrade as it was described, without a method nobody asked for; a cancellation of
\* that action (detect, transformUpgrade).
PostedIsWanted ==
  [][at = "read" /\ Len(inbox') > Len(inbox) =>
       LET e == inbox'[Len(inbox')]
       IN \E w \in offered :
            /\ w[1] # NoDocument
            /\ (e.event = "REQ_UPGRADE" => Describes(w[1], e.upgrade))
            /\ (e.event = "REQ_CANCEL" => w[2] /\ w[1].id = e.id)]_hawkbitVars

\* An action of hawkbit comes to an end, although requests fail, meet error pages, are
\* overtaken, and the closing feedback is sent only once: hawkbit offers again what it
\* has not heard the end of, and the server ends it again (detect, postUpgrade,
\* postCancel, feedback).
ActionsEnd == \A i \in Id : []<>(action.id # i)
=============================================================================
