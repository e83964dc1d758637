----------------------------- MODULE OtaProgress ----------------------------
(***************************************************************************)
(* The progress the OTA master shows: `step', of the phase, and            *)
(* `progress', of the whole upgrade.  They are set by configState when the *)
(* state changes, by every report of the worker of the web queue on its    *)
(* transfers, and during a deployment by the reports of the domains.       *)
(*                                                                         *)
(* The module adds these to OtaMaster.  The worker's reports wait in the   *)
(* queue of the server as its results do, and which phase a report belongs *)
(* to is asked when it is handled: of the web queue, whose state is read   *)
(* without a lock, not of the report.                                      *)
(*                                                                         *)
(* Every package has Size KiB.  Percentages are counted in parts of        *)
(* 1/Unit, so that those of the model are whole.  The texts shown are left *)
(* out.                                                                    *)
(***************************************************************************)
EXTENDS OtaMaster, FiniteSetsExt

CONSTANT Size  \* of each package

ASSUME ProgressAssumption ==
  /\ Size \in Nat \ {0}
  /\ Cases \subseteq
       [reports : SUBSET Reports, offers : 0 .. MaxOffers, events : 1 .. MaxEvents]

VARIABLES
  step, progress,
  moved,      \* by the worker of the web queue: KiB of each domain's files
  installed   \* Domain::progress of each domain, as the server knows it

shownVars == <<step, progress>>
progressVars == <<masterVars, shownVars, moved, installed>>

Unit == 2 * Size * Cardinality(Domain)
Percent(n) == n * Unit
NoneMoved == [d \in Domain |-> 0]

-----------------------------------------------------------------------------
(* What is shown. *)

\* configState: the step and the progress of a state; `last' is the state before.
StateShown(new, last) ==
  CASE new \in {"MR_UNKNOWN", "MR_OFFLINE", "MR_IDLE", "MR_PENDING", "MR_ERROR_ASK"} -> <<0, 0>>
    [] new = "MR_READY" -> <<100, 10>>
    [] new = "MR_DOWNLOAD" -> <<0, 10>>
    [] new = "MR_VERIFY" -> <<50, 30>>
    [] new = "MR_DISTRIBUTE" -> <<100, 30>>
    [] new \in {"MR_WAIT", "MR_DEPLOY"} -> <<0, 50>>
    [] new = "MR_DONE_ASK" -> IF last = "MR_CANCEL" THEN <<0, 0>> ELSE <<100, 100>>

\* The states that keep what was shown.
Keeps == {"MR_CANCEL", "MR_DOWNLOAD_ASK", "MR_DEPLOY_ASK", "MR_CANCEL_ASK", "MR_RESUME_ASK"}

\* The handler has set the state, if it has; before that it showed s and p.
ConfigState(s, p) ==
  IF state' = state \/ state' \in Keeps
  THEN step' = s /\ progress' = p
  ELSE /\ step' = Percent(StateShown(state', lastState')[1])
       /\ progress' = Percent(StateShown(state', lastState')[2])

\* Where the bar begins in each phase, and how far the phase takes it.  Mutant:
\* distribution is taken for the rest of the bar.
ShareOfRest == [WEB_DOWNLOAD |-> 20, WEB_VERIFY |-> 5, WEB_DISTRIBUTE |-> 65]
Base == [WEB_DOWNLOAD |-> 10, WEB_VERIFY |-> 30, WEB_DISTRIBUTE |-> 35]
Share == [WEB_DOWNLOAD |-> 20, WEB_VERIFY |-> 5, WEB_DISTRIBUTE |-> 15]

Sum(amounts, domains) == MapThenSumSet(LAMBDA d : amounts[d], domains)

\* The files that are counted: those of the details.
Counted == job.listed

\* RES_TRANSFER_PROGRESS, with the amounts `done'.
ResTransferProgress(done) ==
  LET current == Sum(done, Counted)
      total == Size * Cardinality(Counted)
  IN IF total = 0 THEN UNCHANGED shownVars
     ELSE /\ step' = (Percent(100) * current) \div total
          /\ progress' = IF webState = "WEB_IDLE" THEN progress
                         ELSE Percent(Base[webState])
                                + (Percent(Share[webState]) * current) \div total

\* The domains whose progress counts for the deployment: it is done, under way, or
\* being cancelled.
Deploying(reports) ==
  { d \in job.listed : \/ reports[d].state \in {"WR_IDLE", "WR_DEPLOY"}
                       \/ reports[d].state = "WR_CANCEL" /\ reports[d].last = "WR_DEPLOY" }

\* RES_DOMAIN: what is shown before the answer of the user is looked at, when d has
\* told r, and p of its own progress.
DomainShown(d, r, p) ==
  IF /\ state = "MR_DEPLOY" /\ d \in job.listed
     /\ r # job.report[d] \/ p # installed[d]
  THEN LET all == Sum([installed EXCEPT ![d] = p], Deploying([job.report EXCEPT ![d] = r]))
           n == Cardinality(job.listed)
       IN << (Unit * all) \div n, Percent(50) + (Unit * all) \div (2 * n) >>
  ELSE shownVars

-----------------------------------------------------------------------------
(* The steps. *)

\* A report on transfers is not handled by any other handler.
AtTransfer == inbox # <<>> /\ Head(inbox).event = "RES_TRANSFER_PROGRESS"

TransferEvent ==
  /\ AtTransfer
  /\ inbox' = Tail(inbox)
  /\ ResTransferProgress(Head(inbox).moved)
  /\ UNCHANGED <<vars, webVars, answers, historyVars, plan, moved, installed>>

\* What a domain that was not heard of again since the details were made says.
Kept(told) == [d \in Domain |-> IF d \in job'.heard THEN told[d] ELSE 0]

OtherEvent ==
  /\ ~AtTransfer
  /\ WebEvent
  /\ ConfigState(step, progress)
  /\ installed' = Kept(installed)
  /\ moved' = moved

\* How far a domain may say to be, when it says r: half way or done while it
\* deploys; done when it has deployed, unless it has started again since.
MaySay(r) ==
  CASE r.state = "WR_DEPLOY" -> {0, 50, 100}
    [] r.state = "WR_IDLE" /\ detectVersionEqual(r) -> {0, 100}
    [] OTHER -> {0}

DomainReports ==
  /\ Room
  /\ \E d \in Domain, r \in plan.reports : \E p \in MaySay(r) :
       /\ \/ \E discovery \in BOOLEAN : ResDomain(d, r, discovery)
          \/ \E discovery \in BOOLEAN, answer \in Answer : ResAnswer(d, r, discovery, answer)
       /\ ConfigState(DomainShown(d, r, p)[1], DomainShown(d, r, p)[2])
       /\ installed' = Kept([installed EXCEPT ![d] = p])
  /\ inbox' = inbox /\ plan' = plan
  /\ Posting
  /\ moved' = moved

Tick ==
  /\ Room
  /\ TimerStep
  /\ inbox' = inbox /\ plan' = plan
  /\ Posting
  /\ ConfigState(step, progress)
  /\ installed' = Kept(installed)
  /\ moved' = moved

\* The domains of the upgrade whose files the worker has.
WorkDomains == UNION {u.domains : u \in {w \in Upgrades : w.id = workId}}

\* The worker posts how far it is.  It has, when it reports to be done, reported
\* all of it before.
Move ==
  /\ Room
  /\ work \in {"download", "verify"} \/ (work = "distribute" /\ handle)
  /\ \E d \in WorkDomains : \E n \in moved[d] + 1 .. Size :
       moved' = [moved EXCEPT ![d] = n]
  /\ inbox' = Append(inbox, [event |-> "RES_TRANSFER_PROGRESS", moved |-> moved'])
  /\ UNCHANGED <<vars, webVars, answers, historyVars, plan, shownVars, installed>>

Whole == \A d \in WorkDomains : moved[d] = Size
Results == {"RES_DOWNLOAD_DONE", "RES_VERIFY_DONE", "RES_DISTRUBUTE_DONE"}

WebEvents ==
  /\ WebQueueStep
  /\ (\E i \in DOMAIN answers' : answers'[i].event \in Results) => Whole
  /\ moved' = IF work = "none" /\ work' # "none" THEN NoneMoved ELSE moved
  /\ UNCHANGED <<shownVars, installed>>

ProgressRestart ==
  /\ MasterRestart
  /\ step' = 0 /\ progress' = 0
  /\ moved' = NoneMoved /\ installed' = NoneMoved

ProgressInit ==
  MasterInit /\ step = 0 /\ progress = 0 /\ moved = NoneMoved
  /\ installed = NoneMoved

ProgressNext ==
  TransferEvent \/ OtherEvent \/ DomainReports \/ Tick \/ Move \/ WebEvents \/ ProgressRestart

ProgressSpec == ProgressInit /\ [][ProgressNext]_progressVars

-----------------------------------------------------------------------------
(* Properties. *)


\* The bar is not ahead of the files: it passes the download only when they are
\* complete, and enters the deployment only in it; at the end it may be whole at
\* once, when the domains turn out to have the new version (configState,
\* RES_TRANSFER_PROGRESS).
NotAhead ==
  state # "MR_DONE_ASK" =>
    /\ progress > Percent(30) => stored # {}
    /\ progress > Percent(50) => state \in {"MR_DEPLOY"} \cup Keeps
=============================================================================
