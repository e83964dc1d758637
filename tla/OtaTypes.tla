------------------------------ MODULE OtaTypes ------------------------------
(***************************************************************************)
(* The enumerations and value types that the server (OTA master) and the   *)
(* clients (OTA workers) of mifsa-ota share: include/mifsa/ota/types/.     *)
(* A version string is abstracted to what a package of the current upgrade *)
(* makes of it, see Version.                                               *)
(***************************************************************************)
EXTENDS Integers, Sequences, FiniteSets

\* The states of the server and of a client, with the names of domain.h.
ServerState ==
  { "MR_UNKNOWN", "MR_OFFLINE", "MR_IDLE", "MR_PENDING", "MR_READY",
    "MR_DOWNLOAD", "MR_VERIFY", "MR_DISTRIBUTE", "MR_WAIT", "MR_DEPLOY",
    "MR_CANCEL", "MR_DOWNLOAD_ASK", "MR_DEPLOY_ASK", "MR_CANCEL_ASK",
    "MR_RESUME_ASK", "MR_DONE_ASK", "MR_ERROR_ASK" }

ClientState ==
  { "WR_UNKNOWN", "WR_OFFLINE", "WR_ERROR", "WR_IDLE", "WR_DOWNLOAD",
    "WR_VERIFY", "WR_PATCH", "WR_WAIT", "WR_DEPLOY", "WR_CANCEL" }

Control ==
  { "CTL_UNKNOWN", "CTL_RESET", "CTL_DOWNLOAD", "CTL_DEPLOY", "CTL_CANCEL",
    "CTL_CLEAR" }

Answer == {"ANS_UNKNOWN", "ANS_ACCEPT", "ANS_REFUSE", "ANS_OTHER"}

\* How an upgrade is to be downloaded and deployed: not at all, after the
\* user agreed, or at once.
Method == {"MTHD_SKIP", "MTHD_ATTEMPT", "MTHD_FORCED"}

\* Domain::mrStateIsBusy and Domain::mrStateIsAsk.
mrStateIsBusy ==
  { "MR_PENDING", "MR_READY", "MR_DOWNLOAD", "MR_VERIFY", "MR_DISTRIBUTE",
    "MR_WAIT", "MR_DEPLOY", "MR_CANCEL" }

mrStateIsAsk ==
  { "MR_DOWNLOAD_ASK", "MR_DEPLOY_ASK", "MR_CANCEL_ASK", "MR_RESUME_ASK",
    "MR_DONE_ASK", "MR_ERROR_ASK" }

(***************************************************************************)
(* The version a domain reports, compared with the version of its package: *)
(*   "none"  the string is empty                                           *)
(*   "old"   detectVersionVaild() holds: the package is newer              *)
(*   "new"   detectVersionEqual() holds: the package is what is installed  *)
(*   "bad"   neither: the package is older, or a string does not parse     *)
(***************************************************************************)
Version == {"none", "old", "new", "bad"}

detectVersionEqual(d) == d.version = "new"
detectVersionVaild(d) == d.version = "old"

\* What a client tells the server of itself, the fields that control depends on.
DomainReport ==
  [state : ClientState, last : ClientState, version : Version, error : BOOLEAN]

\* Detail::hasDepends: one of the domains a package requires is in `depends`.
hasDepends(required, depends) == required \cap depends # {}

\* The kind of action a feedback is about, how far it is, and its result.
FeedType == {"TP_UNKNOWN", "TP_DEPLOY", "TP_CANCEL"}
Execution == {"EXE_PROCEEDING", "EXE_SCHEDULED", "EXE_CLOSED"}
Result == {"RS_SUCCESS", "RS_FAILURE"}

\* An event for the web queue, without data or with a feedback for the backend.
Request(type) == [event |-> type]
WebFeed(type, id, execution, result) ==
  [ event |-> "REQ_FEEDBACK", type |-> type, id |-> id,
    execution |-> execution, result |-> result ]

\* Whether web event e tells the backend that an action is over.
IsClosing(e) == e.event = "REQ_FEEDBACK" /\ e.execution = "EXE_CLOSED"
=============================================================================
