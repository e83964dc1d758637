----------------------------- MODULE OtaViewer -----------------------------
(***************************************************************************)
(* The user before the server: the details the server sends (setState,     *)
(* sendDetailMessage), the client of the viewer that hands them to its     *)
(* window in the window's thread (REQ_DETAIL, viewer.cpp), what the window *)
(* asks and tells (mainwindow.cpp), and the way of the answer back         *)
(* (postDetailAnswer, RES_ANSWER, configAnswer).                           *)
(*                                                                         *)
(* The viewer is a domain of no upgrade.  The queues between the server    *)
(* and the window are served in order, each on its own.  A connection that *)
(* comes back before its loss was noticed is left to OtaLink.              *)
(***************************************************************************)
EXTENDS OtaServer, SequencesExt

CONSTANTS
  Viewer,       \* the domain of the viewer
  Cases,        \* bounds: what the domains report, how many upgrades and cancellations
                \* the backend has, and how often the connection of the viewer breaks
  MaxUnder      \* a bound: nothing new happens with so many details under way

ASSUME ViewerAssumption ==
  /\ Viewer \in Watcher \ Unnamed
  /\ \A case \in Cases : case.reports \subseteq DomainReport

VARIABLES
  connected,      \* the viewer's client has a connection to the server
  needDiscovery,  \* it will ask for the details again
  wire,           \* the details that wait in the queue of the client
  serverState,    \* what the client knows of the server
  calls,          \* the calls that wait in the queue of the window
  window,         \* what the window shows
  answers,        \* the answers under way to the server
  plan,           \* the case; fixed
  requests, breaks

clientVars == <<connected, needDiscovery, serverState>>
windowVars == <<calls, window>>
allVars == <<vars, clientVars, wire, windowVars, answers, requests, breaks>>

\* A detail message, as far as the window reads it; `request' is history: the kind of
\* request the server worked on when it sent it.
Detail(st, last, request) == [state |-> st, last |-> last, request |-> request]

-----------------------------------------------------------------------------
(* The server. *)

\* The details a step sends: of each state it goes through, and of a domain that has
\* changed.
Details ==
  LET now == Detail(state', lastState', type')
  IN IF state' = state /\ lastState' = lastState
     THEN IF job'.report = job.report THEN <<>> ELSE <<now>>
     ELSE IF lastState' = state THEN <<now>>
     ELSE <<Detail(lastState', state, type'), now>>

Tell(more) == wire' = IF connected THEN wire \o Details \o more ELSE wire

Room == Len(wire) + Len(calls) < MaxUnder

\* The states in which the web queue may have results; the worker is not stopped when
\* the user is asked about a cancellation.
Transferring == {"MR_DOWNLOAD", "MR_VERIFY", "MR_DISTRIBUTE", "MR_CANCEL_ASK"}

\* The steps of the server that the viewer has no part in, its own end apart.
ServerStep ==
  /\ Room
  /\ \/ /\ requests' = requests
        /\ \/ state = "MR_OFFLINE" /\ ResInit
           \/ /\ state \in Transferring
              /\ \/ ResDownloadDone \/ ResVerifyDone \/ ResDistributeDone \/ ResError
                 \/ ReqPull(TRUE)
           \/ \E d \in job.listed, r \in plan.reports : ResDomain(d, r, FALSE)
           \/ TimerStep
     \/ /\ state # "MR_OFFLINE"
        /\ requests < plan.requests /\ requests' = requests + 1
        /\ \/ ReqIdle
           \/ \E u \in Upgrades : ReqUpgrade(u)
           \/ \E i \in Id : lastlId = i /\ ReqCancel(i)
  /\ Tell(<<>>)
  /\ UNCHANGED <<clientVars, windowVars, answers, breaks>>

\* The viewer's own report.
Report ==
  [state |-> "WR_IDLE", last |-> "WR_OFFLINE", version |-> "none", error |-> FALSE]

\* The report of every second.  The server learns from it that someone watches; one
\* with discovery is answered with the details of the moment.
Heartbeat ==
  /\ connected /\ Room
  /\ needDiscovery \/ ~job.subscribed
  /\ ResDomain(Viewer, Report, needDiscovery)
  /\ Tell(IF needDiscovery THEN <<Detail(state, lastState, type)>> ELSE <<>>)
  /\ needDiscovery' = FALSE
  /\ UNCHANGED <<connected, serverState, windowVars, answers, requests, breaks>>

\* configAnswer: an answer counts in whatever state it arrives; a result cannot be
\* refused.
ServerAnswer ==
  /\ answers # <<>> /\ Room
  /\ answers' = Tail(answers)
  /\ LET answer == Head(answers)
     IN \/ /\ state \in mrStateIsAsk /\ ~(Confirming /\ answer = "ANS_REFUSE")
           /\ ResAnswer(Viewer, Report, FALSE, answer)
        \/ /\ state \notin mrStateIsAsk \/ (Confirming /\ answer = "ANS_REFUSE")
           /\ ResDomain(Viewer, Report, FALSE)
  /\ Tell(<<>>)
  /\ UNCHANGED <<clientVars, windowVars, requests, breaks>>

-----------------------------------------------------------------------------
(* The client of the viewer. *)

Call(detail, stateChanged) == [detail |-> detail, stateChanged |-> stateChanged]

\* REQ_DETAIL: the detail goes on to the window, with whether its state is new.
ReqDetail ==
  /\ wire # <<>>
  /\ wire' = Tail(wire)
  /\ serverState' = Head(wire).state
  /\ calls' = Append(calls, Call(Head(wire), Head(wire).state # serverState))
  /\ UNCHANGED <<vars, connected, needDiscovery, window, answers, requests, breaks>>

\* sendDomainMessage without a connection: the window is told that the server is away.
Away ==
  /\ ~connected
  /\ ~needDiscovery \/ serverState # "MR_OFFLINE"
  /\ needDiscovery' = TRUE
  /\ serverState' = "MR_OFFLINE"
  /\ calls' = IF serverState = "MR_OFFLINE" THEN calls
              ELSE Append(calls, Call(Detail("MR_OFFLINE", serverState, "TP_UNKNOWN"), TRUE))
  /\ UNCHANGED <<vars, connected, wire, window, answers, requests, breaks>>

\* The connection breaks, perhaps because the server ends and starts again.
Disconnect ==
  /\ connected /\ breaks < plan.breaks /\ breaks' = breaks + 1
  /\ connected' = FALSE
  /\ \E n \in 0 .. Len(wire) : wire' = SubSeq(wire, 1, n)
  /\ answers' = <<>>
  /\ UNCHANGED vars \/ Restart
  /\ UNCHANGED <<needDiscovery, serverState, windowVars, requests>>

Connect ==
  /\ ~connected /\ needDiscovery /\ wire = <<>>
  /\ connected' = TRUE
  /\ UNCHANGED <<vars, needDiscovery, serverState, wire, windowVars, answers, requests,
                 breaks>>

-----------------------------------------------------------------------------
(* The window. *)

\* Mutant: the outcome is told from the state alone.
OutcomeByState(detail) == <<"Cancel", detail.state>>

\* What has succeeded or failed, by the state before.
Outcome(detail) ==
  << IF detail.last \in (IF detail.state = "MR_DONE_ASK" THEN {"MR_CANCEL"}
                         ELSE {"MR_CANCEL", "MR_CANCEL_ASK"})
     THEN "Cancel" ELSE "Upgrade",
     detail.state >>

Results == {"MR_DONE_ASK", "MR_ERROR_ASK"}

\* Mutant: the button of an earlier question stays.
PromptKeeping(detail) ==
  LET text == IF detail.state \in Results THEN Outcome(detail) ELSE <<"Confirm", detail.state>>
  IN IF detail.state \in mrStateIsAsk
     THEN [ text |-> text, accept |-> TRUE, request |-> detail.request,
            reject |-> window.reject \/ detail.state \notin Results ]
     ELSE [text |-> <<>>, accept |-> FALSE, reject |-> FALSE, request |-> detail.request]

\* Mutant: a result has no button.
PromptUnanswered(detail) ==
  [PromptKeeping(detail) EXCEPT !.accept = @ /\ detail.state \notin Results]

\* The label and the buttons for a new state.
Prompt(detail) ==
  IF detail.state \in mrStateIsAsk
  THEN [ text |-> IF detail.state \in Results THEN Outcome(detail)
                  ELSE <<"Confirm", detail.state>>,
         accept |-> TRUE,
         reject |-> detail.state \notin Results,
         request |-> detail.request ]
  ELSE [text |-> <<>>, accept |-> FALSE, reject |-> FALSE, request |-> detail.request]

\* The states in which files go.
Speeds == {"MR_DOWNLOAD", "MR_DISTRIBUTE"}

\* processDetail: the prompt changes with the state, the speed with every detail.
Shown(call) ==
  LET prompt == IF call.stateChanged THEN Prompt(call.detail) ELSE window
  IN IF call.detail.state \in Speeds
     THEN [prompt EXCEPT !.text = <<"Speed", call.detail.state>>]
     ELSE prompt

ProcessVariant ==
  /\ calls # <<>>
  /\ calls' = Tail(calls)
  /\ window' = Shown(Head(calls))
  /\ UNCHANGED <<vars, clientVars, wire, answers, requests, breaks>>

\* postDetailAnswer: the client drops the answer if it knows that nothing is asked;
\* RES_ANSWER sends it, and it is lost without a connection.
Post(answer) ==
  answers' = IF serverState \in mrStateIsAsk /\ connected
             THEN Append(answers, answer)
             ELSE answers

\* The user clicks; a bound: not before the last answer is through.
Click ==
  /\ answers = <<>>
  /\ \/ window.accept /\ Post("ANS_ACCEPT")
     \/ window.reject /\ Post("ANS_REFUSE")
  /\ UNCHANGED <<vars, clientVars, wire, windowVars, requests, breaks>>

-----------------------------------------------------------------------------
\* The window is told MR_OFFLINE before the client has anything to tell (viewer.cpp).
ViewerInit ==
  /\ Init
  /\ connected = TRUE /\ needDiscovery = TRUE
  /\ wire = <<>> /\ calls = <<>> /\ answers = <<>>
  /\ serverState = "MR_OFFLINE"
  /\ window = [text |-> <<>>, accept |-> FALSE, reject |-> FALSE, request |-> "TP_UNKNOWN"]
  /\ plan \in Cases /\ requests = 0 /\ breaks = 0

ViewerNext ==
  /\ \/ ServerStep \/ Heartbeat \/ ServerAnswer
     \/ ReqDetail \/ Away \/ Disconnect \/ Connect
     \/ ProcessVariant \/ Click
  /\ UNCHANGED plan

ViewerSpec == ViewerInit /\ [][ViewerNext]_<<allVars, plan>>

\* The queues are served, the timer of the client ticks, the bus comes back, and the
\* user answers again and again; nothing is demanded of the server's own steps.
ViewerFairSpec ==
  /\ ViewerSpec
  /\ WF_allVars(ReqDetail) /\ WF_allVars(ProcessVariant)
  /\ SF_allVars(ServerAnswer) /\ SF_allVars(Heartbeat)
  /\ WF_allVars(Away) /\ WF_allVars(Connect)
  /\ SF_allVars(Click)

-----------------------------------------------------------------------------
(* Properties. *)


\* When nothing is under way the window offers the answers the server waits for, and
\* none else, and shows a speed only while files go (setState, REQ_DETAIL, processDetail).
PromptSettles ==
  connected /\ ~needDiscovery /\ wire = <<>> /\ calls = <<>> =>
    /\ window.accept <=> state \in mrStateIsAsk
    /\ window.reject <=> state \in mrStateIsAsk \ Results
    /\ window.accept => window.text[2] = state
    /\ window.text # <<>> => window.text[2] = state

\* What the window tells of a cancellation was one: the state before a result, by which
\* it tells, comes from another message than the request (processDetail, feedback).
CancelToldIsCancel ==
  window.text # <<>> /\ window.text[1] = "Cancel" => window.request = "TP_CANCEL"

\* A question is settled, if the connection stays and the user clicks: the click
\* reaches the server or the question is gone (postDetailAnswer, configAnswer).
QuestionsEnd ==
  \A q \in mrStateIsAsk : []<>(state # q)
=============================================================================
