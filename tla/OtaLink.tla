------------------------------ MODULE OtaLink ------------------------------
(***************************************************************************)
(* How the clients hear of the server: the adapters to fdbus, ros and      *)
(* vsomeip (server_interface_*.hpp, client_interface_*.hpp), the numbers   *)
(* of the messages, and the discovery by which a client that was away is   *)
(* sent the last message again (sendDomainMessage, RES_DOMAIN,             *)
(* checkControlMessageId).                                                 *)
(*                                                                         *)
(* A message of the server is told apart by how many it had sent before:   *)
(* its content is that count.  The number it carries begins again when the *)
(* server does, and wraps.  A control message is for every client, a       *)
(* detail message for those that watch.                                    *)
(***************************************************************************)
EXTENDS Naturals, Sequences, SequencesExt

CONSTANTS
  Cases,        \* what may happen: a transport, the clients the upgrade at hand is for
                \* (listed), and a bound: so many messages of each kind (sends)
  Client,
  Watcher,      \* the clients whose application has subscribed to the details
  Total,        \* MIFSA_OTA_MESSAGE_TOTAL_COUNT
  Depth,        \* of the queues of ros: KeepLast
  MaxBreaks,    \* a bound: so many connections break
  MaxRestarts   \* a bound: so often the server starts again

ASSUME LinkAssumption ==
  /\ \A case \in Cases :
       /\ case.transport \in {"fdbus", "ros", "vsomeip"} /\ case.listed \subseteq Client
       /\ case.sends \in [{"control", "detail"} -> Nat]
  /\ Watcher \subseteq Client
  /\ {Total, Depth} \subseteq Nat \ {0}
  /\ {MaxBreaks, MaxRestarts} \subseteq Nat

Kind == {"control", "detail"}
None == [kind \in Kind |-> 0]

VARIABLES
  transport,  \* (fixed) "fdbus", "ros" or "vsomeip"
  listed,     \* (fixed) the clients that are domains of the upgrade at hand
  sends,      \* (fixed) the bound to the messages of each kind
  sent,       \* the count of messages of each kind so far
  last,       \* the content of the last one, 0 if there was none since the start
  number,     \* controlMessageId and detailMessageId of the server
  known,      \* the clients the server takes to be there
  link,       \* of each client: "seen" (connected() is true), "up" (the server gets
              \* its reports), and the kinds of messages that come to it
  reports,    \* the reports under way from each client: whether they discover
  wire,       \* the messages of each kind that wait to be taken by each client
  checked,    \* the messages that have passed the check of their number
  id,         \* controlMessageId and detailMessageId of each client
  heard,      \* the content of the last message of each kind each client has taken
  needDiscovery,
  unaware,    \* (history) the clients and kinds of which the client may miss a message
              \* and will not ask for it
  breaks, restarts

vars == <<sent, last, number, known, link, reports, wire, checked, id, heard,
          needDiscovery, unaware, breaks, restarts, transport, listed, sends>>
serverVars == <<sent, last, number, known>>
clientVars == <<checked, id, heard, needDiscovery>>
fixed == <<transport, listed, sends>>
boundVars == <<breaks, restarts, fixed>>

-----------------------------------------------------------------------------
(* What the server sends. *)

For(kind) == IF kind = "control" THEN Client ELSE Watcher

\* The converted message, as the adapters carry it.
Carried(kind, n, content) ==
  [kind |-> kind, number |-> n, content |-> content, old |-> FALSE]

\* fdbus and vsomeip: one queue, without a limit that matters here.
Queued(queue, m) == Append(queue, m)

\* ros: one queue for each topic, of which a new message drives out the oldest.
OfKind(queue, kind) == {i \in DOMAIN queue : queue[i].kind = kind}
KeptLast(queue, m) ==
  LET same == OfKind(queue, m.kind)
  IN Append(IF Cardinality(same) < Depth THEN queue ELSE RemoveAt(queue, Min(same)), m)

Sent(queue, m) == IF transport = "ros" THEN KeptLast(queue, m) ELSE Queued(queue, m)

\* A message of the kind leaves for every client that can be reached.
Broadcast(kind, n, content, queues) ==
  [ c \in Client |-> IF c \in For(kind) /\ kind \in link[c]
                     THEN Sent(queues[c], Carried(kind, n, content))
                     ELSE queues[c] ]

Following(n) == IF n + 1 > Total THEN 0 ELSE n + 1

\* sendControlMessage and sendDetailMessage of the server, with the number after the
\* last, behind what is in the queues.
New(kind, queues) ==
  /\ sent' = [sent EXCEPT ![kind] = @ + 1]
  /\ last' = [last EXCEPT ![kind] = sent[kind] + 1]
  /\ number' = [number EXCEPT ![kind] = Following(@)]
  /\ wire' = Broadcast(kind, Following(number[kind]), sent[kind] + 1, queues)

SendMessage(kind) ==
  /\ sent[kind] < sends[kind]
  /\ New(kind, wire)
  /\ UNCHANGED <<known, link, reports, clientVars, unaware, boundVars>>

-----------------------------------------------------------------------------
(* What the server gets. *)

\* Mutant: only the control message is repeated.
RepeatsControl(c) ==
  Broadcast("control", number["control"], last["control"], wire)

\* What a report with discovery asks for again: the last control message, and for a
\* watcher that is no domain of the upgrade, the details.
Repeats(c) ==
  LET control == IF last["control"] > 0 /\ c \in listed \cup Watcher
                 THEN Broadcast("control", number["control"], last["control"], wire)
                 ELSE wire
  IN IF last["detail"] > 0 /\ c \in Watcher \ listed
     THEN Broadcast("detail", number["detail"], last["detail"], control)
     ELSE control

\* (History) what c does not hear.
Missed(c, kinds) == {c} \X kinds

\* RES_DOMAIN: a report of c.  One that tells of a change, as one from a domain that
\* was taken to be away does, makes the server send the details.
Report(c) ==
  /\ reports[c] # <<>>
  /\ reports' = [reports EXCEPT ![c] = Tail(@)]
  /\ \/ /\ c \in listed \ known
        /\ known' = known \cup {c}
        /\ New("detail", IF Head(reports[c]) THEN Repeats(c) ELSE wire)
     \/ /\ c \in known \/ c \notin listed
        /\ wire' = IF Head(reports[c]) THEN Repeats(c) ELSE wire
        /\ UNCHANGED serverVars
  /\ unaware' = IF Head(reports[c]) THEN unaware \cup Missed(c, Kind \ link[c]) ELSE unaware
  /\ UNCHANGED <<link, clientVars, boundVars>>

\* The heartbeat of a domain has failed for too long (processDomains).
Silent(c) ==
  /\ c \in listed \cap known /\ link[c] = {} /\ reports[c] = <<>>
  /\ known' = known \ {c}
  /\ New("detail", wire)
  /\ UNCHANGED <<link, reports, clientVars, unaware, boundVars>>

\* (History) what has come on a connection, or on topics, that is over.
Old(m, kinds) == IF m.kind \in kinds THEN [m EXCEPT !.old = TRUE] ELSE m
Aged(queue, kinds) == [i \in DOMAIN queue |-> Old(queue[i], kinds)]

\* The server starts again: it has sent nothing, and counts from the beginning.
Restart ==
  /\ restarts < MaxRestarts /\ restarts' = restarts + 1
  /\ number' = None /\ last' = None /\ known' = {}
  /\ link' = [c \in Client |-> {}]
  /\ reports' = [c \in Client |-> <<>>]
  /\ wire' = [c \in Client |-> Aged(wire[c], Kind)]
  /\ checked' = [c \in Client |-> {Old(m, Kind) : m \in checked[c]}]
  /\ unaware' = unaware \cup UNION {Missed(c, Kind) : c \in {d \in Client : link[d] # {}}}
  /\ UNCHANGED <<sent, id, heard, needDiscovery, breaks, fixed>>

-----------------------------------------------------------------------------
(* The connection. *)

Ends == {"seen", "up"} \cup Kind

\* fdbus: the session is there, and reports go through; onOnline subscribes to both
\* kinds with one request, and what the server sends comes when that has arrived.
FdbusOnline(c) ==
  \/ link[c] = {} /\ link' = [link EXCEPT ![c] = {"seen", "up"}]
  \/ link[c] = {"seen", "up"} /\ link' = [link EXCEPT ![c] = @ \cup Kind]

\* vsomeip: the proxy is available, then the two subscriptions are acknowledged, each
\* on its own.
VsomeipOnline(c) ==
  \/ link[c] = {} /\ link' = [link EXCEPT ![c] = {"seen", "up"}]
  \/ /\ link[c] # {}
     /\ \E kind \in Kind \ link[c] : link' = [link EXCEPT ![c] = @ \cup {kind}]

\* ros: each end of each of the three topics finds the other side on its own;
\* connected() looks at the client's end of the control topic.
RosOnline(c) ==
  \E end \in Ends \ link[c] : link' = [link EXCEPT ![c] = @ \cup {end}]

\* A connection begins.
Online(c) ==
  /\ \/ transport = "fdbus" /\ FdbusOnline(c)
     \/ transport = "vsomeip" /\ VsomeipOnline(c)
     \/ transport = "ros" /\ RosOnline(c)
  /\ UNCHANGED <<serverVars, reports, wire, clientVars, unaware, boundVars>>

\* What breaks: a session with all that goes over it, or some of the ends of ros.
Breaking(c) == IF transport = "ros" THEN SUBSET link[c] \ {{}} ELSE {link[c]} \ {{}}

\* It breaks: what is under way to the server is lost, what has come is still taken.
\* A client that does not notice before the next one begins will not ask for what it
\* missed.
Offline(c) ==
  /\ breaks < MaxBreaks /\ breaks' = breaks + 1
  /\ \E ends \in Breaking(c) :
       /\ link' = [link EXCEPT ![c] = @ \ ends]
       /\ reports' = IF "up" \in ends THEN [reports EXCEPT ![c] = <<>>] ELSE reports
       /\ wire' = [wire EXCEPT ![c] = Aged(@, ends)]
       /\ checked' = [checked EXCEPT ![c] = {Old(m, ends) : m \in @}]
       /\ unaware' = unaware \cup Missed(c, IF "up" \in ends THEN Kind ELSE ends \cap Kind)
  /\ UNCHANGED <<serverVars, id, heard, needDiscovery, restarts, fixed>>

-----------------------------------------------------------------------------
(* The client. *)

\* Mutant: the numbers are kept when the server is away.
Kept(c) == id

Forgotten(c) == [id EXCEPT ![c] = [kind \in Kind |-> 0]]

\* sendDomainMessage, every second: with a connection, the report is sent, and lost if
\* nobody is there to get it; without, the numbers are forgotten, and the application
\* is told that the server is away.  (A report without discovery is modelled only
\* where the server waits for one.)
SendDomainMessage(c) ==
  /\ \/ /\ "seen" \in link[c]
        /\ reports[c] = <<>> /\ (needDiscovery[c] \/ c \in listed \ known)
        /\ reports' = IF "up" \in link[c]
                      THEN [reports EXCEPT ![c] = Append(@, needDiscovery[c])]
                      ELSE reports
        /\ needDiscovery' = [needDiscovery EXCEPT ![c] = FALSE]
        /\ unaware' = IF needDiscovery[c] /\ "up" \notin link[c]
                      THEN unaware \cup Missed(c, Kind) ELSE unaware
        /\ UNCHANGED <<id, heard>>
     \/ /\ "seen" \notin link[c]
        /\ needDiscovery' = [needDiscovery EXCEPT ![c] = TRUE]
        /\ id' = Forgotten(c)
        /\ heard' = [heard EXCEPT ![c]["detail"] = 0]
        /\ unaware' = unaware \ Missed(c, Kind)
        /\ UNCHANGED reports
  /\ UNCHANGED <<serverVars, link, wire, checked, boundVars>>

\* Mutant: the callbacks of a client may run at the same time.
Reentrant(c) == TRUE

\* The callbacks of a client run one at a time: the worker of fdbus, the dispatcher of
\* vsomeip, the callback group of ros.
Alone(c) == checked[c] = {}

\* The place of the next message: the first, with ros the first of either topic.
FdbusNext(c) == {1}
RosNext(c) ==
  {i \in DOMAIN wire[c] : \A j \in 1 .. i - 1 : wire[c][j].kind # wire[c][i].kind}
VsomeipNext(c) == FdbusNext(c)
Next1(c) ==
  CASE transport = "ros" -> RosNext(c)
    [] transport = "vsomeip" -> VsomeipNext(c)
    [] OTHER -> FdbusNext(c)

\* A message comes; it is dropped if its number is that of the last one.
Check(c) ==
  /\ wire[c] # <<>> /\ Alone(c)
  /\ \E i \in Next1(c) :
       LET m == wire[c][i]
       IN /\ wire' = [wire EXCEPT ![c] = RemoveAt(@, i)]
          /\ checked' = IF m.number = id[c][m.kind] THEN checked
                        ELSE [checked EXCEPT ![c] = @ \cup {m}]
  /\ UNCHANGED <<serverVars, link, reports, id, heard, needDiscovery, unaware, boundVars>>

\* Its number is kept and it is handed on.  The thread of the queue may have forgotten
\* the numbers in between.
Take(c) ==
  \E m \in checked[c] :
    /\ checked' = [checked EXCEPT ![c] = @ \ {m}]
    /\ id' = [id EXCEPT ![c][m.kind] = m.number]
    /\ heard' = [heard EXCEPT ![c][m.kind] = m.content]
    /\ unaware' = IF m.old THEN unaware \cup Missed(c, {m.kind}) ELSE unaware
    /\ UNCHANGED <<serverVars, link, reports, wire, needDiscovery, boundVars>>

-----------------------------------------------------------------------------
Init ==
  /\ \E case \in Cases :
       transport = case.transport /\ listed = case.listed /\ sends = case.sends
  /\ sent = None /\ last = None /\ number = None /\ known = {}
  /\ link = [c \in Client |-> {}]
  /\ reports = [c \in Client |-> <<>>]
  /\ wire = [c \in Client |-> <<>>]
  /\ checked = [c \in Client |-> {}]
  /\ id = [c \in Client |-> None]
  /\ heard = [c \in Client |-> None]
  /\ needDiscovery = [c \in Client |-> TRUE]
  /\ unaware = {}
  /\ breaks = 0 /\ restarts = 0

ClientStep(c) == SendDomainMessage(c) \/ Check(c) \/ Take(c)

Next ==
  \/ Restart
  \/ \E kind \in Kind : SendMessage(kind)
  \/ \E c \in Client :
       Report(c) \/ Silent(c) \/ Online(c) \/ Offline(c) \/ ClientStep(c)

Spec == Init /\ [][Next]_vars

\* Timers tick, queues and callbacks are served, a connection that has begun is
\* completed.
LinkFairness ==
  \A c \in Client :
    /\ WF_vars(SendDomainMessage(c)) /\ WF_vars(Check(c)) /\ WF_vars(Take(c))
    /\ WF_vars(Report(c)) /\ WF_vars(Online(c))

-----------------------------------------------------------------------------
(* Properties. *)

\* A client takes the messages of the server in the order they were sent in: none
\* after a later one, whatever is repeated, driven out of a queue,
\* or comes from a connection that is over (the adapters, checkControlMessageId).
InOrder ==
  [][ \A c \in Client, k \in Kind :
        heard'[c][k] >= heard[c][k] \/ (k = "detail" /\ heard'[c][k] = 0) ]_vars

\* The number of the last message is that of a client which has heard nothing: after
\* the greatest number comes 0, and such a client drops it, however often it is
\* repeated, until there is another.
Mute(c, k) == number[k] = 0 /\ id[c][k] = 0

\* A client that stays connected hears of what the server has said last, also when it
\* said so while the client was away or the numbers began again, unless the client
\* could not know that it was away, its question was lost, or the message is one it
\* cannot tell from none (Mute): a message that waits to be heard does not wait for
\* ever.
Most == Max({case.sends[k] : case \in Cases, k \in Kind})
Hears(c, k) ==
  \A n \in 1 .. Most :
    []<>( \/ heard[c][k] >= n \/ last[k] # n \/ Mute(c, k)
          \/ "seen" \notin link[c] \/ <<c, k>> \in unaware )

\* The control messages reach every client of the upgrade and every watcher
\* (needDiscovery, RES_DOMAIN, sendControlMessage).
ControlHeard ==
  \A c \in Client : []<>(c \notin listed \cup Watcher) \/ Hears(c, "control")

\* The details reach the watchers beside the upgrade (needDiscovery, RES_DOMAIN).
StatusHeard ==
  \A c \in Watcher : []<>(c \in listed) \/ Hears(c, "detail")
=============================================================================
