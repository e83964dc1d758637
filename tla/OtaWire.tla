------------------------------ MODULE OtaWire ------------------------------
(***************************************************************************)
(* What the messages carry.  The server and the clients hand structures of *)
(* types/ to the adapters, which copy them field by field into structures  *)
(* generated from idls/, and out of them again at the other end            *)
(* (_getPackage, _getControlMessage, _getDetailMessage, _getDomainMessage  *)
(* of client/src/adapter and server/src/adapter).                          *)
(*                                                                         *)
(* A message is a function from the fields it may have to their values; a  *)
(* field is a pair of a structure and a name.  What is not copied keeps    *)
(* its default.  An enumerator travels as its number.  A list stands for   *)
(* one element of it, and the text of a JSON value for the value.          *)
(*                                                                         *)
(* The status of a domain takes two hops: to the server, which keeps it    *)
(* (Domain::isEqual, Domain::update), and from there in the details to the *)
(* clients that watch.  OtaLink says when messages arrive, and which.      *)
(***************************************************************************)
EXTENDS Naturals, FiniteSets

CONSTANTS
  Transports,  \* of "fdbus", "ros" and "vsomeip"
  MaxChanges   \* a bound: so many changes of a client's status, or of the orders

ASSUME WireAssumption ==
  /\ Transports \subseteq {"fdbus", "ros", "vsomeip"}
  /\ MaxChanges \in Nat

VARIABLES
  built,       \* the one the system was built with
  orders,      \* the control message of the server
  obeyed,      \* the one the client has got
  said,        \* the report of a client
  report,      \* the one on its way to the server, as numbers
  kept,        \* what the server knows of the domain (m_hpr->details)
  detail,      \* the detail message on its way to a client that watches
  shown,       \* what that client shows of the domain
  changes

wireVars == <<built, orders, obeyed, said, report, kept, detail, shown, changes>>

-----------------------------------------------------------------------------
(* The structures. *)

Of(struct, names) == {struct} \X names

File == Of("File", {"domain", "name", "url", "size", "md5", "sha1", "sha256"})
WebUrl == Of("File", {"web_url"})
Package == File \cup Of("Package", {"domain", "part", "version", "meta"})
Orders ==
  Package \cup Of("Upgrade", {"id", "download", "deploy", "maintenance"})
          \cup Of("ControlMessage", {"id", "control", "depends"})
Status ==
  Of("Domain", {"state", "last", "watcher", "error", "version", "attribute",
                "meta", "progress", "message", "answer"})
DomainFields == Status \cup Of("Domain", {"name", "guid"})
ReportFields == DomainFields \cup Of("DomainMessage", {"discovery"})
Transfer ==
  Of("Transfer", {"domain", "name", "progress", "speed", "total", "current",
                  "pass", "left"})
Details ==
  DomainFields \cup Package \cup Transfer
    \cup Of("Detail", {"progress", "deploy"})
    \cup Of("DetailMessage", {"id", "state", "last", "active", "error", "step",
                              "progress", "message"})

\* The enumerations, in the order of their numbers.
ServerStates ==
  << "MR_UNKNOWN", "MR_OFFLINE", "MR_IDLE", "MR_PENDING", "MR_READY", "MR_DOWNLOAD",
     "MR_VERIFY", "MR_DISTRIBUTE", "MR_WAIT", "MR_DEPLOY", "MR_CANCEL",
     "MR_DOWNLOAD_ASK", "MR_DEPLOY_ASK", "MR_CANCEL_ASK", "MR_RESUME_ASK",
     "MR_DONE_ASK", "MR_ERROR_ASK" >>
ClientStates ==
  << "WR_UNKNOWN", "WR_OFFLINE", "WR_ERROR", "WR_IDLE", "WR_DOWNLOAD", "WR_VERIFY",
     "WR_PATCH", "WR_WAIT", "WR_DEPLOY", "WR_CANCEL" >>
Controls ==
  << "CTL_UNKNOWN", "CTL_RESET", "CTL_DOWNLOAD", "CTL_DEPLOY", "CTL_CANCEL",
     "CTL_CLEAR" >>
Answers == << "ANS_UNKNOWN", "ANS_ACCEPT", "ANS_REFUSE", "ANS_OTHER" >>
Methods == << "MTHD_SKIP", "MTHD_ATTEMPT", "MTHD_FORCED" >>

\* The enumeration of a field; a field with other values has none.
Enumeration(f) ==
  CASE f \in Of("DetailMessage", {"state", "last"}) -> ServerStates
    [] f \in Of("Domain", {"state", "last"}) -> ClientStates
    [] f = <<"Domain", "answer">> -> Answers
    [] f = <<"ControlMessage", "control">> -> Controls
    [] f \in Of("Upgrade", {"download", "deploy"}) -> Methods
    [] OTHER -> <<>>
Enumerated(f) == Enumeration(f) # <<>>

Names(enumeration) == {enumeration[i] : i \in DOMAIN enumeration}
Number(f, name) == (CHOOSE i \in DOMAIN Enumeration(f) : Enumeration(f)[i] = name) - 1

\* The values of a field: enumerators, or 0 for the default and 1 for another.
Values(f) == IF Enumerated(f) THEN Names(Enumeration(f)) ELSE {0, 1}
Default(f) == IF Enumerated(f) THEN Enumeration(f)[1] ELSE 0

-----------------------------------------------------------------------------
(* The adapters: the fields each of them copies, into a message or out of it. *)

FdbusServer == [orders |-> Orders, report |-> ReportFields, details |-> Details]
\* Mutant: the client forgets the checksum.
FdbusClientUnchecked ==
  [ orders |-> Orders \ Of("File", {"sha256"}), report |-> ReportFields,
    details |-> Details ]
FdbusClient == [orders |-> Orders, report |-> ReportFields, details |-> Details]

RosServer == [orders |-> Orders, report |-> ReportFields, details |-> Details]
RosClient == [orders |-> Orders, report |-> ReportFields, details |-> Details]

VsomeipServer == [orders |-> Orders, report |-> ReportFields, details |-> Details]
VsomeipClient == [orders |-> Orders, report |-> ReportFields, details |-> Details]

ServerAdapter ==
  CASE built = "fdbus" -> FdbusServer
    [] built = "ros" -> RosServer
    [] built = "vsomeip" -> VsomeipServer
ClientAdapter ==
  CASE built = "fdbus" -> FdbusClient
    [] built = "ros" -> RosClient
    [] built = "vsomeip" -> VsomeipClient

\* Message m with `fields' copied into a generated structure.
Written(m, fields) ==
  [ f \in fields \cap DOMAIN m |-> IF Enumerated(f) THEN Number(f, m[f]) ELSE m[f] ]

\* What `fields' copies out of it, into a fresh structure with the fields `all'.
Got(wire, fields, all) ==
  [ f \in all |->
      IF f \notin fields \cap DOMAIN wire THEN Default(f)
      ELSE IF Enumerated(f) THEN Enumeration(f)[wire[f] + 1] ELSE wire[f] ]

-----------------------------------------------------------------------------
(* The steps. *)

Fresh(all) == [f \in all |-> Default(f)]
Named(m) == [m EXCEPT ![<<"Domain", "name">>] = 1]
Nothing == <<>>

\* The server has listed the domain, whose client begins and makes its first report;
\* nothing is shown yet.
WireInit ==
  /\ built \in Transports
  /\ orders = Fresh(Orders \cup WebUrl) /\ obeyed = Fresh(Orders \cup WebUrl)
  /\ said = Named(Fresh(ReportFields)) /\ report = Written(said, ClientAdapter.report)
  /\ kept = [Named(Fresh(DomainFields)) EXCEPT ![<<"Domain", "state">>] = "WR_OFFLINE",
                                   ![<<"Domain", "last">>] = "WR_OFFLINE"]
  /\ detail = Nothing /\ shown = Fresh(DomainFields)
  /\ changes = 0

\* sendControlMessage with other orders, and processControlMessage.
SendControlMessage ==
  /\ changes < MaxChanges
  /\ \E f \in DOMAIN orders : \E v \in Values(f) \ {orders[f]} :
       LET m == [orders EXCEPT ![f] = v]
       IN /\ orders' = m
          /\ obeyed' = Got(Written(m, ServerAdapter.orders), ClientAdapter.orders, DOMAIN m)
  /\ changes' = changes + 1
  /\ UNCHANGED <<built, said, report, kept, detail, shown>>

\* sendDomainMessage with another status, when the last message has been taken.
SendDomain ==
  /\ changes < MaxChanges /\ report = Nothing
  /\ \E f \in ReportFields \ Of("Domain", {"name"}) : \E v \in Values(f) \ {said[f]} :
       /\ said' = [said EXCEPT ![f] = v]
       /\ report' = Written(said', ClientAdapter.report)
  /\ changes' = changes + 1
  /\ UNCHANGED <<built, orders, obeyed, kept, detail, shown>>

\* Domain::isEqual: not the guid.  Mutant: nor the progress.
IsEqualButProgress(d, m) ==
  \A f \in Status \ Of("Domain", {"progress"}) : d[f] = m[f]
IsEqual(d, m) == \A f \in Status : d[f] = m[f]

\* Domain::update: neither the name nor the guid.  Mutant: nor the last state.
UpdateStatusOnly(d, m) ==
  [f \in DomainFields |-> IF f \in Status \ Of("Domain", {"last"}) THEN m[f] ELSE d[f]]
Update(d, m) == [f \in DomainFields |-> IF f \in Status THEN m[f] ELSE d[f]]

\* processDomainMessage and the part of RES_DOMAIN that keeps the status and tells
\* of it.
ResDomain ==
  /\ report # Nothing /\ detail = Nothing
  /\ LET m == Got(report, ServerAdapter.report, ReportFields)
     IN IF m[<<"Domain", "name">>] # kept[<<"Domain", "name">>] \/ IsEqual(kept, m)
        THEN UNCHANGED <<kept, detail>>
        ELSE kept' = Update(kept, m) /\ detail' = Written(kept', ServerAdapter.details)
  /\ report' = Nothing
  /\ UNCHANGED <<built, orders, obeyed, said, shown, changes>>

\* processDetailMessage, and the function of the application that watches.
ResDetail ==
  /\ detail # Nothing
  /\ shown' = Got(detail, ClientAdapter.details, DomainFields)
  /\ detail' = Nothing
  /\ UNCHANGED <<built, orders, obeyed, said, report, kept, changes>>

WireNext == SendControlMessage \/ SendDomain \/ ResDomain \/ ResDetail

WireSpec == WireInit /\ [][WireNext]_wireVars

-----------------------------------------------------------------------------
(* Properties. *)

\* What was said is what is known at the other end.  The client acts on what the server
\* ordered: the files with their checksums, the packages whose meta names what they
\* depend on, and who still deploys.  And when nothing is on its way the server knows
\* what the client last said, and a client that watches shows it: each of the fields
\* has gone through four conversions, and through a comparison that decides whether it
\* is passed on (eventChanged REQ_CONTROL, RES_DOMAIN, processDetailMessage).
FieldsCarried ==
  /\ \A f \in Orders : obeyed[f] = orders[f]
  /\ report = Nothing /\ detail = Nothing =>
       \A f \in Status : kept[f] = said[f] /\ shown[f] = said[f]
=============================================================================
