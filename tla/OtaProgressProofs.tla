------------------------- MODULE OtaProgressProofs --------------------------
(***************************************************************************)
(* Proofs about the OTA master, the server beside its web queue            *)
(* (OtaMaster) with the progress and the reports (OtaProgress), for every  *)
(* set of domains, upgrades and cases.                                     *)
(*                                                                         *)
(* ServerImplemented: the server of the master does what OtaServer says,   *)
(* so every safety theorem of OtaServerProofs holds of the master.  The    *)
(* step that needs an invariant is the first event (Boot): RES_INIT comes  *)
(* first, once, and nothing else is handled before it.                     *)
(*                                                                         *)
(* TransfersUnderway: who waits for a transfer will be told of it.  Beside *)
(* the property itself, without the worker that is about to end or to be   *)
(* stopped for good (Carried), it needs that a REQ_PULL which is still in  *)
(* the queue when the distribution has ended, and its state is still to be *)
(* read, is followed by the worker's result (PullFollowed): the server     *)
(* enters MR_DISTRIBUTE for it, and leaves it for the result.              *)
(*                                                                         *)
(* BarNotAhead: the bar is not ahead of the files.  As long as no files    *)
(* are complete the server is early in the upgrade, the web queue does     *)
(* nothing that needs files, and neither has asked the other to            *)
(* (EarlyInv); a report stays within the part of its phase, as a sum of    *)
(* parts is not more than the whole (SumBound, ShareBound).                *)
(***************************************************************************)
EXTENDS OtaProgress, OtaServerProofs, WellFoundedInduction

Outcome == {"RES_ERROR", "RES_DOWNLOAD_DONE", "RES_VERIFY_DONE", "RES_DISTRUBUTE_DONE"}

\* The server is in a transfer and its request is not answered.
Waiting == state \in {"MR_DOWNLOAD", "MR_VERIFY", "MR_DISTRIBUTE"} /\ ~Answered

\* A worker that has not posted its result, and is not stopped for good, or one that a
\* handler will start.
Busy ==
  \/ work \in {"download", "verify", "distribute"} /\ blocked # "REQ_STOP"
  \/ blocked \in Transfers

\* The distribution has ended, and its state can still be read.
Ends == webState = "WEB_DISTRIBUTE" /\ ~Busy

\* Such a worker, a request for one, or a result.
Carried == Busy \/ Awaited(requests, Transfers) \/ Awaited(inbox, Outcome)

\* The events of the two queues.
AnyRequest == WebRequest \cup WebFeedback \cup {Request("REQ_INIT")}
AnyEvent ==
  [event : Outcome \cup {"RES_INIT", "REQ_IDLE", "REQ_PULL"}]
    \cup [event : {"REQ_UPGRADE"}, upgrade : Upgrades]
    \cup [event : {"REQ_CANCEL"}, id : Id]
    \cup [event : {"RES_TRANSFER_PROGRESS"}, moved : [Domain -> 0 .. Size]]

QueuesOK ==
  /\ requests \in Seq(AnyRequest)
  /\ inbox \in Seq(AnyEvent)
  /\ {seen, backend} \subseteq Web!Wanted
  /\ moved \in [Domain -> 0 .. Size]
  /\ plan \in Cases

\* Nothing is handled before RES_INIT, and it comes once.
Boot ==
  /\ ~hasInited => /\ state = "MR_OFFLINE" /\ inbox = <<>>
                   /\ requests = << Request("REQ_INIT") >>
                   /\ work = "none" /\ blocked = "no"
  /\ hasInited /\ state = "MR_OFFLINE" => inbox # <<>> /\ Head(inbox).event = "RES_INIT"
  /\ \A i \in DOMAIN inbox :
       inbox[i].event = "RES_INIT" => i = 1 /\ state = "MR_OFFLINE"

\* Files are served by a worker that distributes; the state says that one does when it
\* does, or will, and not when a handler waits that will start another one.
Worked ==
  /\ handle => work = "distribute"
  /\ webState = "WEB_DISTRIBUTE" =>
       blocked = "REQ_DISTRIBUTE" \/ work \in {"distribute", "ending"}
  /\ blocked \in {"REQ_DOWNLOAD", "REQ_VERIFY", "REQ_STOP"} => webState # "WEB_DISTRIBUTE"

\* When the distribution has ended, every REQ_PULL is before a result.
PullFollowed ==
  Ends /\ ~behind =>
    \A i \in DOMAIN inbox : inbox[i].event = "REQ_PULL" =>
      \E k \in DOMAIN inbox : k > i /\ inbox[k].event \in Outcome

WaitsForSomething == Waiting /\ ~cut /\ ~behind => Carried

MInv ==
  IInv /\ QueuesOK /\ Boot /\ Worked /\ PullFollowed /\ WaitsForSomething

\* The requests that stop the worker, one by one.
LEMMA WebRequests ==
  /\ DOMAIN Web!StateOf = Transfers \cup {"REQ_STOP"}
  /\ DOMAIN Web!WorkOf = Transfers
  /\ Web!StateOf["REQ_DOWNLOAD"] = "WEB_DOWNLOAD" /\ Web!WorkOf["REQ_DOWNLOAD"] = "download"
  /\ Web!StateOf["REQ_VERIFY"] = "WEB_VERIFY" /\ Web!WorkOf["REQ_VERIFY"] = "verify"
  /\ Web!StateOf["REQ_DISTRIBUTE"] = "WEB_DISTRIBUTE"
  /\ Web!WorkOf["REQ_DISTRIBUTE"] = "distribute"
  /\ Web!StateOf["REQ_STOP"] = "WEB_IDLE"
  BY DEF Web!StateOf, Web!WorkOf, Transfers

-----------------------------------------------------------------------------
(* What the handlers of the server do to a transfer. *)

\* The request of a transfer is posted, with whatever else.
LEMMA RequestPosted ==
  ASSUME NEW before \in Seq(TruthfulEvent), NEW request \in Transfers,
         posted' = before \o <<Request(request)>>
  PROVE  Awaited(posted', Transfers)
  <1>1. Request(request) \in TruthfulEvent
    BY PlainEvents DEF Transfers
  <1>2. <<Request(request)>> \in Seq(TruthfulEvent)
    BY <1>1
  <1>3. Len(before) \in Nat
    BY LenProperties
  <1>4. /\ Len(before \o <<Request(request)>>) = Len(before) + 1
        /\ (before \o <<Request(request)>>)[Len(before) + 1] = Request(request)
    BY <1>2, <1>3, ConcatProperties
  <1>5. before \o <<Request(request)>> \in Seq(TruthfulEvent)
    BY <1>2, ConcatProperties
  <1>6. Len(before) + 1 \in DOMAIN posted'
    BY <1>3, <1>4, <1>5, LenProperties
  <1> QED
    BY <1>4, <1>6 DEF Awaited, Request

\* So a state that is set with a request for it leaves the server asking.
LEMMA SetStateRequests ==
  ASSUME IInv, NEW from, NEW new, NEW before \in Seq(TruthfulEvent), NEW request \in Transfers,
         job' \in Job, type' \in FeedType,
         SetState(from, new, before, <<Request(request)>>)
  PROVE  Awaited(posted', Transfers)
  <1>1. Changed(from, new, type', job') \in Seq(TruthfulEvent)
    BY ChangedTruthful
  <1>2. before \o Changed(from, new, type', job') \in Seq(TruthfulEvent)
    BY <1>1, ConcatProperties
  <1>3. posted' = (before \o Changed(from, new, type', job')) \o <<Request(request)>>
    BY DEF SetState
  <1> QED
    BY <1>2, <1>3, RequestPosted

\* A failure is answered by another request, or the server waits no more.
LEMMA ErrorEffect ==
  ASSUME IInv, job' \in Job, type' \in FeedType, ResError
  PROVE  /\ Waiting' => Awaited(posted', Transfers)
         /\ state' = "MR_OFFLINE" => state = "MR_OFFLINE"
  <1>1. CASE RetryDownload
    <2>1. <<Request("REQ_CHECK")>> \in Seq(TruthfulEvent) /\ "REQ_DOWNLOAD" \in Transfers
      BY PlainEvents DEF Transfers
    <2>2. SetState(state, "MR_DOWNLOAD", <<Request("REQ_CHECK")>>, <<Request("REQ_DOWNLOAD")>>)
      BY <1>1 DEF RetryDownload
    <2> QED
      BY <2>1, <2>2, SetStateRequests DEF SetState
  <1>2. CASE GiveUp
    <2>1. TryFeedback(FALSE, job, <<>>) /\ type' = type
      BY <1>2 DEF GiveUp
    <2>2. CASE Answered
      BY <2>1, <2>2 DEF TryFeedback, Waiting, Answered
    <2>3. CASE ~Answered
      BY <2>1, <2>3 DEF TryFeedback, Feedback, Waiting, Answered, SetState
    <2> QED
      BY <2>2, <2>3
  <1> QED
    BY <1>1, <1>2 DEF ResError

\* The end of a phase asks for the next one.
LEMMA DoneEffect ==
  ASSUME IInv, job' \in Job, type' \in FeedType,
         ResDownloadDone \/ ResVerifyDone \/ ResDistributeDone
  PROVE  /\ Waiting' => Awaited(posted', Transfers)
         /\ state' # "MR_OFFLINE"
  <1>1. <<>> \in Seq(TruthfulEvent)
    OBVIOUS
  <1>2. ASSUME NEW next, NEW request \in Transfers, PhaseDone(next, <<Request(request)>>)
        PROVE  Awaited(posted', Transfers) /\ state' = next
    BY <1>1, <1>2, SetStateRequests DEF PhaseDone, SetState
  <1>3. CASE ResDownloadDone
    BY <1>2, <1>3 DEF ResDownloadDone, Transfers
  <1>4. CASE ResVerifyDone
    BY <1>2, <1>4 DEF ResVerifyDone, Transfers
  <1>5. CASE ResDistributeDone
    BY <1>5 DEF ResDistributeDone, PhaseDone, SetState, Waiting
  <1> QED
    BY <1>3, <1>4, <1>5

\* The other events leave no transfer that the server waits for, but REQ_PULL.
LEMMA BackendEffect ==
  ASSUME \/ ResInit \/ ReqIdle
         \/ \E u \in Upgrades : ReqUpgrade(u)
         \/ \E id \in Id : ReqCancel(id)
  PROVE  ~Waiting' /\ state' # "MR_OFFLINE"
  <1>1. CASE ResInit \/ ReqIdle
    BY <1>1 DEF ResInit, ReqIdle, Idle, SetState, Waiting
  <1>2. CASE \E u \in Upgrades : ReqUpgrade(u)
    BY <1>2 DEF ReqUpgrade, Pending, SetState, Waiting
  <1>3. CASE \E id \in Id : ReqCancel(id)
    BY <1>3 DEF ReqCancel, Feedback, SetState, Waiting, Answered
  <1> QED
    BY <1>1, <1>2, <1>3

LEMMA PullEffect ==
  ASSUME NEW distributing, ReqPull(distributing)
  PROVE  distributing /\ state' = "MR_DISTRIBUTE"
  BY DEF ReqPull, SetState

\* A report of a domain lets the server wait, or go on to do so, only with a request.
LEMMA ReportEffect ==
  ASSUME IInv, job' \in Job, type' \in FeedType, DomainStep
  PROVE  /\ Waiting' => Awaited(posted', Transfers) \/ (Waiting /\ posted' = <<>>)
         /\ state' = "MR_OFFLINE" <=> state = "MR_OFFLINE"
         /\ state = "MR_OFFLINE" => posted' = <<>>
  <1>1. PICK d \in Domain, r \in Reports, discovery \in BOOLEAN :
          \/ ResDomain(d, r, discovery)
          \/ \E answer \in Answer : ResAnswer(d, r, discovery, answer)
    BY DEF DomainStep
  <1>2. CASE ResDomain(d, r, discovery)
    BY <1>2 DEF ResDomain, Waiting, Answered, requestVars
  <1>3. CASE \E answer \in Answer : ResAnswer(d, r, discovery, answer)
    <2> DEFINE j == Recorded(d, r)
               repeated == Repeated(d, discovery)
    <2>1. type' = type /\ (Accept(j, repeated) \/ Refuse(j, repeated) \/ OtherAnswer(j, repeated))
      BY <1>3 DEF ResAnswer
    <2> HIDE DEF j, repeated
    <2>2. <<>> \in Seq(TruthfulEvent) /\ "REQ_DOWNLOAD" \in Transfers
      BY DEF Transfers
    <2>3. CASE Accept(j, repeated)
      <3>1. CASE SetState(state, "MR_DOWNLOAD", <<>>, <<Request("REQ_DOWNLOAD")>>)
                   /\ state = "MR_DOWNLOAD_ASK"
        BY <2>2, <3>1, SetStateRequests DEF SetState
      <3>2. CASE /\ \E new \in {"MR_DEPLOY", "MR_CANCEL", "MR_IDLE"} :
                      SetState(state, new, <<>>, <<>>)
                 /\ state # "MR_OFFLINE"
        BY <3>2 DEF SetState, Waiting
      <3> QED
        BY <2>3, <3>1, <3>2 DEF Accept, Idle, Confirming
    <2>4. CASE Refuse(j, repeated)
      <3>1. CASE /\ state \in {"MR_DOWNLOAD_ASK", "MR_DEPLOY_ASK", "MR_CANCEL_ASK"}
                 /\ TryFeedback(FALSE, j, repeated)
        BY <2>1, <3>1 DEF TryFeedback, Feedback, SetState, Waiting, Answered
      <3>2. CASE /\ state = "MR_RESUME_ASK"
                 /\ \E new \in {"MR_PENDING", "MR_IDLE"} : SetState(state, new, <<>>, <<>>)
        BY <3>2 DEF SetState, Waiting
      <3> QED
        BY <2>4, <3>1, <3>2 DEF Refuse, Pending, Idle
    <2>5. CASE OtherAnswer(j, repeated)
      BY <2>5 DEF OtherAnswer, Waiting
    <2> QED
      BY <2>1, <2>3, <2>4, <2>5
  <1> QED
    BY <1>1, <1>2, <1>3

\* So does the timer: it only goes on to a download that it asks for.
LEMMA TimerEffect ==
  ASSUME IInv, job' \in Job, type' \in FeedType, TimerStep
  PROVE  /\ Waiting' => Awaited(posted', Transfers) \/ (Waiting /\ posted' = <<>>)
         /\ state' # "MR_OFFLINE" /\ state # "MR_OFFLINE"
  <1>1. PICK late, silent, overdue : ProcessDomains(late, silent, overdue)
    BY DEF TimerStep
  <1>2. state # "MR_OFFLINE" /\ type' = type /\ ~Answered
    BY <1>1 DEF ProcessDomains, Watching, Answered
  <1>3. ASSUME NEW finished, NEW from, NEW j, NEW before, NEW message, NEW after,
               Feedback(finished, from, j, before, message, after)
        PROVE  ~Waiting' /\ state' # "MR_OFFLINE"
    BY <1>3 DEF Feedback, SetState, Waiting, Answered
  <1>4. ASSUME NEW j, NEW feeds \in Seq(TruthfulEvent), SetState(state, Released(j), feeds, Demand(Released(j))),
               ~InDeployment => feeds = <<>>
        PROVE  /\ Waiting' => Awaited(posted', Transfers) \/ (Waiting /\ posted' = <<>>)
               /\ state' # "MR_OFFLINE"
    <2>1. state' = Released(j)
      BY <1>4 DEF SetState
    <2>2. Released(j) # "MR_OFFLINE"
      BY <1>2 DEF Released, Selected
    <2>3. CASE Selecting /\ Released(j) = "MR_DOWNLOAD"
      <3>1. Demand(Released(j)) = <<Request("REQ_DOWNLOAD")>> /\ "REQ_DOWNLOAD" \in Transfers
        BY <2>3 DEF Demand, Transfers
      <3> QED
        BY <1>4, <2>1, <2>2, <3>1, SetStateRequests
    <2>4. CASE ~(Selecting /\ Released(j) = "MR_DOWNLOAD") /\ Waiting'
      <3>1. Released(j) = state /\ ~InDeployment
        BY <2>1, <2>4 DEF Waiting, Released, Selected, Selecting, InDeployment
      <3>2. Demand(Released(j)) = <<>> /\ feeds = <<>>
        BY <1>4, <2>4, <3>1 DEF Demand
      <3>3. posted' = <<>>
        BY <1>4, <3>1, <3>2 DEF SetState, Changed
      <3> QED
        BY <1>2, <2>1, <2>2, <2>4, <3>1, <3>3 DEF Waiting
    <2> QED
      BY <2>1, <2>2, <2>3, <2>4
  <1>5. ASSUME Conclude(After(Len(Order), silent), Scheduled(Len(Order), silent),
                        Resent(Len(Order), silent))
        PROVE  /\ Waiting' => Awaited(posted', Transfers) \/ (Waiting /\ posted' = <<>>)
               /\ state' # "MR_OFFLINE"
    <2> DEFINE n == Len(Order)
    <2>1. n \in 0 .. Len(Order)
      BY DomainAssumption, LenProperties
    <2>2. Scheduled(n, silent) \in Seq(TruthfulEvent)
      BY <2>1, ScheduledTruthful
    <2>3. ~InDeployment => Scheduled(n, silent) = <<>>
      BY DEF Scheduled, Repeats
    <2> HIDE DEF n
    <2>4. \/ \E finished, from, j, before, message, after :
               Feedback(finished, from, j, before, message, after)
          \/ SetState(state, Released(After(n, silent)), Scheduled(n, silent),
                      Demand(Released(After(n, silent))))
      BY <1>5 DEF Conclude, n
    <2> QED
      BY <1>3, <1>4, <2>2, <2>3, <2>4
  <1> QED
    BY <1>1, <1>2, <1>3, <1>5 DEF ProcessDomains
-----------------------------------------------------------------------------
(* Queues of events. *)

\* Taking the first event, which is another one, loses nobody that is awaited.
LEMMA AwaitedTail ==
  ASSUME NEW S, NEW q \in Seq(S), q # <<>>, NEW events,
         Awaited(q, events), Head(q).event \notin events
  PROVE  Awaited(Tail(q), events)
  <1>1. PICK i \in DOMAIN q : q[i].event \in events
    BY DEF Awaited
  <1>2. Len(q) \in Nat /\ DOMAIN q = 1 .. Len(q) /\ Head(q) = q[1]
    BY LenProperties
  <1>3. i # 1
    BY <1>1, <1>2
  <1>4. i - 1 \in 1 .. Len(q) - 1
    BY <1>1, <1>2, <1>3
  <1>5. /\ Tail(q) \in Seq(S) /\ Len(Tail(q)) = Len(q) - 1
        /\ Tail(q)[i - 1] = q[(i - 1) + 1]
    BY <1>4, HeadTailProperties
  <1>6. i - 1 \in DOMAIN Tail(q) /\ Tail(q)[i - 1] = q[i]
    BY <1>1, <1>2, <1>4, <1>5, LenProperties
  <1> QED
    BY <1>1, <1>6 DEF Awaited

\* Nor does adding events, and who is among the new ones is awaited.
LEMMA AwaitedConcat ==
  ASSUME NEW S, NEW p \in Seq(S), NEW q \in Seq(S), NEW events,
         Awaited(p, events) \/ Awaited(q, events)
  PROVE  Awaited(p \o q, events)
  <1>1. /\ Len(p) \in Nat /\ Len(q) \in Nat
        /\ DOMAIN p = 1 .. Len(p) /\ DOMAIN q = 1 .. Len(q)
        /\ p \o q \in Seq(S) /\ Len(p \o q) = Len(p) + Len(q)
        /\ DOMAIN (p \o q) = 1 .. Len(p) + Len(q)
    BY ConcatProperties, LenProperties
  <1>2. CASE Awaited(p, events)
    <2>1. PICK i \in DOMAIN p : p[i].event \in events
      BY <1>2 DEF Awaited
    <2>2. (p \o q)[i] = p[i] /\ i \in DOMAIN (p \o q)
      BY <1>1, <2>1, ConcatProperties
    <2> QED
      BY <2>1, <2>2 DEF Awaited
  <1>3. CASE Awaited(q, events)
    <2>1. PICK i \in DOMAIN q : q[i].event \in events
      BY <1>3 DEF Awaited
    <2>2. Len(p) + i \in DOMAIN (p \o q) /\ (p \o q)[Len(p) + i] = q[i]
      BY <1>1, <2>1, ConcatProperties
    <2> QED
      BY <2>1, <2>2 DEF Awaited
  <1> QED
    BY <1>2, <1>3

-----------------------------------------------------------------------------
(* The steps of the master are steps of its server. *)

\* An event that is taken from the queue is one of those the server may get.
LEMMA HandledIsStep ==
  ASSUME QueuesOK, Boot, inbox # <<>>, Handled(Head(inbox))
  PROVE  WebStep
  <1> DEFINE e == Head(inbox)
  <1>1. e \in AnyEvent /\ 1 \in DOMAIN inbox /\ e = inbox[1]
    BY HeadTailProperties, LenProperties DEF QueuesOK
  <1>2. e.event = "RES_INIT" <=> state = "MR_OFFLINE"
    BY <1>1 DEF Boot
  <1>3. CASE state = "MR_OFFLINE"
    BY <1>2, <1>3 DEF Handled, WebStep
  <1>4. CASE state # "MR_OFFLINE"
    <2>1. e.event = "REQ_UPGRADE" => e.upgrade \in Upgrades
      BY <1>1 DEF AnyEvent, Outcome
    <2>2. e.event = "REQ_CANCEL" => e.id \in Id
      BY <1>1 DEF AnyEvent, Outcome
    <2>3. (webState = "WEB_DISTRIBUTE") \in BOOLEAN
      OBVIOUS
    <2> HIDE DEF e
    <2> QED
      BY <1>2, <1>4, <2>1, <2>2, <2>3 DEF Handled, WebStep, e
  <1> QED
    BY <1>3, <1>4

\* A report is one that the clients may send.
LEMMA ReportsAreReports ==
  ASSUME QueuesOK PROVE plan.reports \subseteq Reports
  BY ProgressAssumption DEF QueuesOK

\* The part of a report that the server handles.
LEMMA ReportIsStep ==
  ASSUME QueuesOK, DomainReports PROVE DomainStep
  BY ReportsAreReports DEF DomainReports, DomainStep

LEMMA StepImplements ==
  ASSUME MInv, [ProgressNext]_progressVars
  PROVE  [Next]_vars
  <1>1. CASE OtherEvent
    BY <1>1, HandledIsStep DEF OtherEvent, WebEvent, Ignored, Next, MInv
  <1>2. CASE DomainReports
    BY <1>2, ReportIsStep DEF Next, MInv
  <1>3. CASE Tick
    BY <1>3 DEF Tick, Next
  <1>4. CASE ProgressRestart
    BY <1>4 DEF ProgressRestart, MasterRestart, Next
  <1>5. CASE TransferEvent \/ Move \/ WebEvents \/ UNCHANGED progressVars
    BY <1>5 DEF TransferEvent, Move, WebEvents, WebQueueStep, progressVars, masterVars
  <1> QED
    BY <1>1, <1>2, <1>3, <1>4, <1>5 DEF ProgressNext

\* So the invariant of the server is kept, and what it posts are requests.
LEMMA StepServer ==
  ASSUME MInv, [ProgressNext]_progressVars
  PROVE  /\ IInv'
         /\ job' \in Job /\ type' \in FeedType
         /\ Next => posted' \in Seq(AnyRequest)
  <1>1. IInv'
    BY StepImplements, NextIInv DEF MInv
  <1>2. job' \in Job /\ type' \in FeedType
    BY <1>1 DEF IInv, TypeOK
  <1>3. ASSUME Next PROVE posted' \in Seq(AnyRequest)
    <2>1. posted' \in Seq(TruthfulEvent)
      BY <1>1, <1>3, NextTruthful DEF MInv
    <2>2. TruthfulEvent \subseteq AnyRequest
      BY DEF TruthfulEvent, AnyRequest
    <2> QED
      BY <2>1, <2>2
  <1> QED
    BY <1>1, <1>2, <1>3
-----------------------------------------------------------------------------
(* What a step of the web queue, its worker or the backend does. *)

\* A stop for an earlier request is taken.
Stops == requests # <<>> /\ requests' = Tail(requests) /\ Head(requests).event = "REQ_STOP"

\* The clients are told to pull when the distribution has already failed.
Outrun == blocked = "serving" /\ blocked' = "no" /\ ~handle

WebEffect ==
  /\ {seen, backend}' \subseteq Web!Wanted
  /\ Worked'
  /\ \/ answers' = <<>>
     \/ \E e \in AnyEvent : /\ answers' = <<e>>
                            /\ e.event = "RES_INIT" => ~hasInited
                            /\ e.event = "REQ_PULL" /\ Ends' => Outrun
  /\ hasInited => hasInited'
  /\ hasInited' /\ ~hasInited => answers' = << [event |-> "RES_INIT"] >>
  /\ ~hasInited' => UNCHANGED <<requests, work, blocked>> /\ answers' = <<>>
  /\ Ends' => Ends \/ Awaited(answers', Outcome)
  /\ Busy => Busy' \/ Awaited(answers', Outcome) \/ Stops
  /\ \/ requests' = requests
     \/ /\ requests # <<>> /\ requests' = Tail(requests)
        /\ Head(requests).event \in Transfers => Busy'

\* One event is awaited as soon as it is posted.
LEMMA OneAwaited ==
  ASSUME NEW outcome \in Outcome
  PROVE  /\ Web!Reply(outcome) \in AnyEvent
         /\ Web!Reply(outcome).event = outcome
         /\ Awaited(<<Web!Reply(outcome)>>, Outcome)
  BY DEF Web!Reply, AnyEvent, Awaited

\* What a worker can post.
LEMMA OutcomesType ==
  /\ Web!Outcomes \subseteq Outcome
  /\ Web!Outcomes # {} => work \in {"download", "verify", "distribute"}
  BY DEF Web!Outcomes, Outcome

\* What neither starts nor stops a worker leaves what is worked on.
LEMMA Untouched ==
  ASSUME MInv, UNCHANGED <<work, handle, webState>>,
         blocked' = blocked \/ {blocked, blocked'} \subseteq {"no", "poll", "listen", "serving"}
  PROVE  Worked' /\ (Busy <=> Busy') /\ (Ends <=> Ends')
  <1>1. Worked'
    BY DEF MInv, Worked
  <1> QED
    BY <1>1 DEF Busy, Ends, Transfers

\* And if it takes no request for one, either, nobody who waits is concerned.
LEMMA UntouchedEffect ==
  ASSUME MInv, hasInited, hasInited', UNCHANGED <<work, handle, webState>>,
         {seen, backend}' \subseteq Web!Wanted,
         blocked' = blocked \/ {blocked, blocked'} \subseteq {"no", "poll", "listen", "serving"},
         \/ answers' = <<>>
         \/ \E e \in AnyEvent : /\ answers' = <<e>>
                                /\ e.event # "RES_INIT"
                                /\ e.event = "REQ_PULL" /\ Ends' => Outrun,
         \/ requests' = requests
         \/ /\ requests # <<>> /\ requests' = Tail(requests)
            /\ Head(requests).event \notin Transfers
  PROVE  WebEffect
  BY Untouched DEF WebEffect

LEMMA WorkerEffect ==
  ASSUME MInv, Web!WorkEnds \/ Web!StopThread \/ Web!EndCb \/ Web!Listen PROVE WebEffect
  <1>1. CASE Web!WorkEnds
    <2>1. PICK outcome \in Web!Outcomes :
            /\ work' = "ending" /\ handle' = FALSE
            /\ answers' = << Web!Reply(outcome) >>
            /\ UNCHANGED <<requests, webState, hasInited, Web!pollVars, Web!backendVars>>
      BY <1>1 DEF Web!WorkEnds
    <2>2. work \in {"download", "verify", "distribute"} /\ outcome \in Outcome
      BY OutcomesType
    <2>3. /\ Web!Reply(outcome) \in AnyEvent /\ Web!Reply(outcome).event = outcome
          /\ Awaited(answers', Outcome)
      BY <2>1, <2>2, OneAwaited
    <2>4. outcome # "RES_INIT" /\ outcome # "REQ_PULL"
      BY <2>2 DEF Outcome
    <2>5. hasInited
      BY <2>2 DEF MInv, Boot
    <2>6. Worked
      BY DEF MInv
    <2>7. Worked'
      <3>1. blocked' = blocked
        BY <2>1 DEF Web!pollVars
      <3> QED
        BY <2>1, <2>6, <3>1 DEF Worked
    <2>8. {seen, backend}' \subseteq Web!Wanted
      BY <2>1 DEF MInv, QueuesOK, Web!pollVars, Web!backendVars
    <2> QED
      BY <2>1, <2>3, <2>4, <2>5, <2>7, <2>8 DEF WebEffect
  <1>2. CASE Web!StopThread
    <2>1. /\ blocked \in DOMAIN Web!StateOf /\ work' = "ending" /\ handle' = FALSE
          /\ answers' = <<>>
          /\ UNCHANGED <<requests, webState, hasInited, blocked, seen, backend>>
      BY <1>2 DEF Web!StopThread, Web!pollVars, Web!backendVars
    <2>2. hasInited
      BY <2>1, WebRequests DEF MInv, Boot, Transfers
    <2>3. Worked'
      BY <2>1 DEF MInv, Worked
    <2>4. CASE blocked = "REQ_STOP"
      <3>1. webState' # "WEB_DISTRIBUTE"
        BY <2>1, <2>4 DEF MInv, Worked
      <3>2. ~Busy
        BY <2>4 DEF Busy, Transfers
      <3> QED
        BY <2>1, <2>2, <2>3, <3>1, <3>2 DEF WebEffect, MInv, QueuesOK, Ends
    <2>5. CASE blocked \in Transfers
      <3>1. Busy'
        BY <2>1, <2>5 DEF Busy
      <3> QED
        BY <2>1, <2>2, <2>3, <3>1 DEF WebEffect, MInv, QueuesOK, Ends
    <2> QED
      BY <2>1, <2>4, <2>5, WebRequests
  <1>3. CASE Web!EndCb
    <2>1. /\ work = "ending" /\ work' = "none" /\ webState' = "WEB_IDLE" /\ answers' = <<>>
          /\ UNCHANGED <<requests, hasInited, handle, blocked, seen, backend>>
      BY <1>3 DEF Web!EndCb, Web!pollVars, Web!backendVars
    <2>2. hasInited
      BY <2>1 DEF MInv, Boot
    <2>3. Worked'
      BY <2>1, WebRequests DEF MInv, Worked, Transfers
    <2> QED
      BY <2>1, <2>2, <2>3 DEF MInv, QueuesOK, WebEffect, Busy, Ends
  <1>4. CASE Web!Listen
    <2>1. /\ work = "distribute" /\ handle' = TRUE /\ answers' = <<>>
          /\ UNCHANGED <<requests, webState, hasInited, work, blocked, seen, backend>>
      BY <1>4 DEF Web!Listen, Web!pollVars, Web!backendVars
    <2>2. hasInited
      BY <2>1 DEF MInv, Boot
    <2>3. Worked'
      BY <2>1 DEF MInv, Worked
    <2> QED
      BY <2>1, <2>2, <2>3 DEF MInv, QueuesOK, WebEffect, Busy, Ends
  <1> QED
    BY <1>1, <1>2, <1>3, <1>4

\* The handlers that only ask the backend, or answer one that has asked.
LEMMA PollEffect ==
  ASSUME MInv, NEW upgrade, NEW cancelId,
         \/ Web!ReqInit \/ Web!ReqCheck \/ Web!CheckUpgrade \/ Web!PollEnds(upgrade, cancelId)
         \/ Web!Backend \/ Web!ReqFeedback
  PROVE  WebEffect
  <1> USE DEF MInv, QueuesOK
  <1>1. Web!Nothing \in Web!Wanted
    BY DEF Web!Nothing, Web!Wanted
  <1>2. Web!Poll => {seen', backend} \subseteq Web!Wanted
    BY <1>1 DEF Web!Poll, Web!pollVars
  <1>4. ASSUME hasInited, hasInited', UNCHANGED <<work, handle, webState>>,
               {seen, backend}' \subseteq Web!Wanted,
               {blocked, blocked'} \subseteq {"no", "poll"},
               \/ answers' = <<>>
               \/ \E e \in AnyEvent : /\ answers' = <<e>>
                                      /\ e.event \notin {"RES_INIT", "REQ_PULL"},
               \/ requests' = requests
               \/ /\ requests # <<>> /\ requests' = Tail(requests)
                  /\ Head(requests).event \notin Transfers
        PROVE  WebEffect
    BY <1>4, UntouchedEffect
  <1>5. CASE Web!ReqInit
    <2>1. /\ requests # <<>> /\ Head(requests).event = "REQ_INIT" /\ requests' = Tail(requests)
          /\ hasInited' = TRUE /\ {blocked, blocked'} \subseteq {"no", "poll"}
          /\ UNCHANGED <<work, handle, webState, backend>>
          /\ \/ hasInited /\ seen' = seen /\ answers' = <<>>
             \/ ~hasInited /\ Web!Poll /\ answers' = << [event |-> "RES_INIT"] >>
      BY <1>5 DEF Web!ReqInit, Web!Takes, Web!Poll, Web!workVars, Web!pollVars, Web!Reply
    <2>2. {seen, backend}' \subseteq Web!Wanted
      BY <1>2, <2>1
    <2>3. [event |-> "RES_INIT"] \in AnyEvent
      BY DEF AnyEvent
    <2>4. Worked' /\ (Busy <=> Busy') /\ (Ends <=> Ends')
      BY <2>1, Untouched
    <2> QED
      BY <2>1, <2>2, <2>3, <2>4 DEF WebEffect, Transfers
  <1>6. CASE Web!ReqCheck
    <2>1. /\ requests # <<>> /\ Head(requests).event = "REQ_CHECK" /\ requests' = Tail(requests)
          /\ Web!Poll /\ answers' = <<>> /\ {blocked, blocked'} \subseteq {"no", "poll"}
          /\ UNCHANGED <<hasInited, work, handle, webState, backend>>
      BY <1>6 DEF Web!ReqCheck, Web!Takes, Web!Poll, Web!workVars, Web!pollVars
    <2>2. hasInited
      BY <2>1 DEF Boot, Request
    <2> QED
      BY <1>2, <1>4, <2>1, <2>2 DEF Transfers
  <1>7. CASE Web!CheckUpgrade
    <2>1. /\ hasInited /\ Web!Poll /\ answers' = <<>> /\ requests' = requests
          /\ {blocked, blocked'} \subseteq {"no", "poll"}
          /\ UNCHANGED <<hasInited, work, handle, webState, backend>>
      BY <1>7 DEF Web!CheckUpgrade, Web!Poll, Web!workVars, Web!pollVars
    <2> QED
      BY <1>2, <1>4, <2>1
  <1>8. CASE Web!PollEnds(upgrade, cancelId)
    <2>1. /\ blocked = "poll" /\ blocked' = "no" /\ seen' = Web!Nothing /\ requests' = requests
          /\ UNCHANGED <<hasInited, work, handle, webState, backend>>
      BY <1>8 DEF Web!PollEnds, Web!workVars, Web!backendVars
    <2>2. hasInited
      BY <2>1 DEF Boot
    <2>3. seen.upgrade # NoUpgrade => seen.upgrade \in Upgrades /\ seen.upgrade.id \in Id
      BY InputAssumption DEF Web!Wanted, Upgrade
    <2>4. \/ answers' = <<>>
          \/ answers' = << [event |-> "REQ_IDLE"] >>
          \/ /\ seen.upgrade # NoUpgrade
             /\ \/ answers' = << [event |-> "REQ_CANCEL", id |-> seen.upgrade.id] >>
                \/ answers' = << [event |-> "REQ_UPGRADE", upgrade |-> seen.upgrade] >>
      BY <1>8 DEF Web!PollEnds, Web!Reply
    <2>5. [event |-> "REQ_IDLE"] \in AnyEvent
      BY DEF AnyEvent
    <2>6. seen.upgrade # NoUpgrade =>
            /\ [event |-> "REQ_CANCEL", id |-> seen.upgrade.id] \in AnyEvent
            /\ [event |-> "REQ_UPGRADE", upgrade |-> seen.upgrade] \in AnyEvent
      BY <2>3 DEF AnyEvent
    <2>7. \/ answers' = <<>>
          \/ \E e \in AnyEvent : answers' = <<e>> /\ e.event \notin {"RES_INIT", "REQ_PULL"}
      BY <2>4, <2>5, <2>6
    <2> QED
      BY <1>1, <1>4, <2>1, <2>2, <2>7
  <1>9. CASE Web!Backend
    <2>1. PICK b \in Web!Wanted : Web!Offer(b)
      <3>1. \A u \in Upgrades : [upgrade |-> u, cancel |-> FALSE] \in Web!Wanted
        BY DEF Web!Wanted
      <3>2. [backend EXCEPT !.cancel = TRUE] \in Web!Wanted
        BY DEF Web!Wanted
      <3> QED
        BY <1>1, <1>9, <3>1, <3>2 DEF Web!Backend
    <2>2. /\ backend' = b /\ answers' = <<>>
          /\ UNCHANGED <<requests, hasInited, work, handle, webState, blocked, seen>>
      BY <2>1 DEF Web!Offer, Web!workVars, Web!pollVars
    <2>3. Worked' /\ (Busy <=> Busy') /\ (Ends <=> Ends')
      BY <2>2, Untouched
    <2> QED
      BY <2>2, <2>3 DEF WebEffect
  <1>10. CASE Web!ReqFeedback
    <2>1. /\ requests # <<>> /\ Head(requests).event = "REQ_FEEDBACK" /\ requests' = Tail(requests)
          /\ blocked = "no" /\ blocked' = "no"
          /\ UNCHANGED <<hasInited, work, handle, webState, seen>>
          /\ backend' \in {backend, Web!Received(Head(requests))}
          /\ answers' \in { <<>>, << [event |-> "RES_ERROR"] >> }
      BY <1>10 DEF Web!ReqFeedback, Web!Takes, Web!workVars, Web!pollVars, Web!backendVars,
                   Web!Reply
    <2>2. Web!Received(Head(requests)) \in Web!Wanted
      BY <1>1 DEF Web!Received, Web!Wanted
    <2>3. [event |-> "RES_ERROR"] \in AnyEvent
      BY DEF AnyEvent, Outcome
    <2>4. hasInited
      BY <2>1 DEF Boot, Request
    <2> QED
      BY <1>4, <2>1, <2>2, <2>3, <2>4 DEF Transfers
  <1> QED
    BY <1>5, <1>6, <1>7, <1>8, <1>9, <1>10

\* The requests that stop the worker: what was worked on is waited for, or it is stopped.
LEMMA RequestEffect ==
  ASSUME MInv, Web!ReqDownload \/ Web!ReqVerify \/ Web!ReqDistribute \/ Web!ReqStop
  PROVE  WebEffect
  <1>1. PICK event \in Transfers \cup {"REQ_STOP"} : Web!SetsState(event)
    BY DEF Web!ReqDownload, Web!ReqVerify, Web!ReqDistribute, Web!ReqStop, Transfers
  <1>2. /\ requests # <<>> /\ Head(requests).event = event /\ requests' = Tail(requests)
        /\ blocked = "no" /\ blocked' = event /\ webState' = Web!StateOf[event]
        /\ answers' = <<>>
        /\ UNCHANGED <<hasInited, work, handle, seen, backend>>
    BY <1>1 DEF Web!SetsState, Web!Takes, Web!backendVars
  <1>3. hasInited
    BY <1>1, <1>2 DEF MInv, Boot, Request, Transfers
  <1>4. Worked'
    BY <1>2, WebRequests DEF MInv, Worked, Transfers
  <1>5. CASE event \in Transfers
    <2>1. Busy'
      BY <1>2, <1>5 DEF Busy
    <2> QED
      BY <1>2, <1>3, <1>4, <2>1 DEF WebEffect, Ends, MInv, QueuesOK
  <1>6. CASE event = "REQ_STOP"
    <2>1. webState' = "WEB_IDLE" /\ Stops /\ event \notin Transfers
      BY <1>2, <1>6, WebRequests DEF Stops, Transfers
    <2> QED
      BY <1>2, <1>3, <1>4, <2>1 DEF WebEffect, Ends, MInv, QueuesOK
  <1> QED
    BY <1>5, <1>6

\* A handler goes on: it starts the worker that the state names, or returns, and it may
\* let the clients pull when the worker has failed meanwhile.
LEMMA GoOnEffect ==
  ASSUME MInv, NEW upgrade,
         \/ Web!StartThread(upgrade) \/ Web!Stopped
         \/ Web!SeesHandle \/ Web!CanPull \/ Web!CannotPull
  PROVE  WebEffect
  <1>1. hasInited
    BY WebRequests DEF MInv, Boot, Transfers, Web!StartThread, Web!Stopped, Web!SeesHandle,
          Web!CanPull, Web!CannotPull
  <1>2. CASE Web!StartThread(upgrade)
    <2>1. /\ blocked \in Transfers /\ work = "none" /\ work' = Web!WorkOf[blocked]
          /\ blocked' \in {"no", "listen"} /\ answers' = <<>>
          /\ UNCHANGED <<requests, webState, hasInited, handle, seen, backend>>
      BY <1>2, WebRequests DEF Web!StartThread, Web!backendVars
    <2>2. Worked'
      BY <2>1, WebRequests DEF MInv, Worked, Transfers
    <2>3. Busy'
      BY <2>1, WebRequests DEF Busy, Transfers
    <2> QED
      BY <1>1, <2>1, <2>2, <2>3 DEF WebEffect, Ends, MInv, QueuesOK
  <1>3. CASE Web!Stopped
    <2>1. /\ blocked = "REQ_STOP" /\ blocked' = "no" /\ work = "none" /\ answers' = <<>>
          /\ UNCHANGED <<requests, webState, hasInited, work, handle, seen, backend>>
      BY <1>3 DEF Web!Stopped, Web!Returns, Web!workVars, Web!backendVars
    <2>2. Worked'
      BY <2>1 DEF MInv, Worked
    <2>3. webState' # "WEB_DISTRIBUTE" /\ ~Busy
      BY <2>1 DEF MInv, Worked, Busy, Transfers
    <2> QED
      BY <1>1, <2>1, <2>2, <2>3 DEF WebEffect, Ends, MInv, QueuesOK
  <1>4. CASE Web!SeesHandle \/ Web!CannotPull
    <2>1. /\ {blocked, blocked'} \subseteq {"no", "listen", "serving"} /\ answers' = <<>>
          /\ UNCHANGED <<requests, webState, hasInited, work, handle, seen, backend>>
      BY <1>4 DEF Web!SeesHandle, Web!CannotPull, Web!Returns, Web!workVars, Web!backendVars
    <2> QED
      BY <1>1, <2>1, UntouchedEffect DEF MInv, QueuesOK
  <1>5. CASE Web!CanPull
    <2>1. /\ blocked = "serving" /\ blocked' = "no"
          /\ answers' = << [event |-> "REQ_PULL"] >>
          /\ UNCHANGED <<requests, webState, hasInited, work, handle, seen, backend>>
      BY <1>5 DEF Web!CanPull, Web!Returns, Web!Reply, Web!workVars, Web!backendVars
    <2>2. [event |-> "REQ_PULL"] \in AnyEvent
      BY DEF AnyEvent
    <2>3. handle => Busy'
      BY <2>1 DEF MInv, Worked, Busy
    <2>4. Ends' => Outrun
      BY <2>1, <2>3 DEF Ends, Outrun
    <2> QED
      BY <1>1, <2>1, <2>2, <2>4, UntouchedEffect DEF MInv, QueuesOK
  <1> QED
    BY <1>2, <1>3, <1>4, <1>5

LEMMA WebQueueEffect ==
  ASSUME MInv, WebQueueStep PROVE WebEffect
  <1>1. CASE Web!Backend \/ Web!CheckUpgrade
    BY <1>1, PollEffect
  <1>2. CASE Web!WebNext(job.upgrade, job.cancelId)
    BY <1>2, WorkerEffect, PollEffect, RequestEffect, GoOnEffect DEF Web!WebNext
  <1> QED
    BY <1>1, <1>2 DEF WebQueueStep
-----------------------------------------------------------------------------
(* The queue of the server, when an event is taken and when one is added. *)

LEMMA TakenEvent ==
  ASSUME MInv, inbox # <<>>, inbox' = Tail(inbox)
  PROVE  /\ inbox' \in Seq(AnyEvent)
         /\ hasInited
         /\ \A i \in DOMAIN inbox' : inbox'[i].event # "RES_INIT"
         /\ UNCHANGED <<work, webState, blocked, behind>> => PullFollowed'
         /\ Head(inbox).event \notin Outcome /\ Awaited(inbox, Outcome) =>
              Awaited(inbox', Outcome)
  <1>1. /\ inbox \in Seq(AnyEvent) /\ inbox' \in Seq(AnyEvent)
        /\ Len(inbox) \in Nat /\ Len(inbox') = Len(inbox) - 1
        /\ DOMAIN inbox = 1 .. Len(inbox) /\ DOMAIN inbox' = 1 .. Len(inbox) - 1
        /\ \A i \in DOMAIN inbox' : i + 1 \in DOMAIN inbox /\ inbox'[i] = inbox[i + 1]
    BY HeadTailProperties, LenProperties DEF MInv, QueuesOK
  <1>2. hasInited
    BY DEF MInv, Boot
  <1>3. ASSUME NEW i \in DOMAIN inbox' PROVE inbox'[i].event # "RES_INIT"
    <2>1. i + 1 \in DOMAIN inbox /\ inbox'[i] = inbox[i + 1] /\ i + 1 # 1
      BY <1>1
    <2> QED
      BY <2>1 DEF MInv, Boot
  <1>4. ASSUME UNCHANGED <<work, webState, blocked, behind>>, Ends, ~behind,
               NEW i \in DOMAIN inbox', inbox'[i].event = "REQ_PULL"
        PROVE  \E k \in DOMAIN inbox' : k > i /\ inbox'[k].event \in Outcome
    <2>1. i + 1 \in DOMAIN inbox /\ inbox[i + 1].event = "REQ_PULL" /\ i \in Nat
      BY <1>1, <1>4
    <2>2. PICK k \in DOMAIN inbox : k > i + 1 /\ inbox[k].event \in Outcome
      BY <1>4, <2>1 DEF MInv, PullFollowed
    <2>3. k - 1 \in DOMAIN inbox' /\ k - 1 > i /\ (k - 1) + 1 = k
      BY <1>1, <2>1, <2>2
    <2> QED
      BY <1>1, <2>2, <2>3
  <1>5. ASSUME Head(inbox).event \notin Outcome, Awaited(inbox, Outcome)
        PROVE  Awaited(inbox', Outcome)
    BY <1>1, <1>5, AwaitedTail
  <1> QED
    BY <1>1, <1>2, <1>3, <1>4, <1>5 DEF PullFollowed, Ends, Busy

LEMMA AddedEvent ==
  ASSUME MInv, NEW e \in AnyEvent, inbox' = Append(inbox, e)
  PROVE  /\ inbox' \in Seq(AnyEvent) /\ inbox' # <<>>
         /\ inbox # <<>> => Head(inbox') = Head(inbox)
         /\ inbox = <<>> => Head(inbox') = e
         /\ \A i \in DOMAIN inbox' :
              inbox'[i].event = "RES_INIT" /\ e.event # "RES_INIT" =>
                i = 1 /\ state = "MR_OFFLINE"
         /\ e.event # "REQ_PULL" /\ (Ends' /\ ~behind' => Ends /\ ~behind) => PullFollowed'
         /\ e.event \in Outcome => PullFollowed'
         /\ Awaited(inbox, Outcome) \/ e.event \in Outcome => Awaited(inbox', Outcome)
  <1>1. /\ inbox \in Seq(AnyEvent) /\ inbox' \in Seq(AnyEvent) /\ inbox' # <<>>
        /\ Len(inbox) \in Nat /\ Len(inbox') = Len(inbox) + 1
        /\ DOMAIN inbox = 1 .. Len(inbox) /\ DOMAIN inbox' = 1 .. Len(inbox) + 1
        /\ \A i \in DOMAIN inbox : i \in DOMAIN inbox' /\ inbox'[i] = inbox[i]
        /\ inbox'[Len(inbox) + 1] = e /\ Len(inbox) + 1 \in DOMAIN inbox'
    BY AppendProperties, LenProperties DEF MInv, QueuesOK
  <1>2. Head(inbox') = inbox'[1] /\ (inbox # <<>> => Head(inbox) = inbox[1] /\ 1 \in DOMAIN inbox)
    BY <1>1, HeadTailProperties, LenProperties
  <1>3. inbox = <<>> => Len(inbox) = 0
    OBVIOUS
  <1>4. ASSUME NEW i \in DOMAIN inbox', inbox'[i].event = "RES_INIT", e.event # "RES_INIT"
        PROVE  i = 1 /\ state = "MR_OFFLINE"
    <2>1. i \in DOMAIN inbox /\ inbox[i].event = "RES_INIT"
      BY <1>1, <1>4
    <2> QED
      BY <2>1 DEF MInv, Boot
  <1>5. ASSUME e.event # "REQ_PULL", Ends' /\ ~behind' => Ends /\ ~behind PROVE PullFollowed'
    <2> SUFFICES ASSUME Ends, ~behind, NEW i \in DOMAIN inbox', inbox'[i].event = "REQ_PULL"
                 PROVE  \E k \in DOMAIN inbox' : k > i /\ inbox'[k].event \in Outcome
      BY <1>5 DEF PullFollowed
    <2>1. i \in DOMAIN inbox /\ inbox[i].event = "REQ_PULL"
      BY <1>1, <1>5
    <2>2. PICK k \in DOMAIN inbox : k > i /\ inbox[k].event \in Outcome
      BY <2>1 DEF MInv, PullFollowed
    <2> QED
      BY <1>1, <2>2
  <1>6. ASSUME e.event \in Outcome PROVE PullFollowed'
    <2> SUFFICES ASSUME NEW i \in DOMAIN inbox', inbox'[i].event = "REQ_PULL"
                 PROVE  \E k \in DOMAIN inbox' : k > i /\ inbox'[k].event \in Outcome
      BY DEF PullFollowed
    <2>1. "REQ_PULL" \notin Outcome
      BY DEF Outcome
    <2>2. i # Len(inbox) + 1
      BY <1>1, <1>6, <2>1
    <2>3. Len(inbox) + 1 > i
      BY <1>1, <2>2
    <2> QED
      BY <1>1, <1>6, <2>3
  <1>7. ASSUME Awaited(inbox, Outcome) \/ e.event \in Outcome PROVE Awaited(inbox', Outcome)
    BY <1>1, <1>7 DEF Awaited
  <1> QED
    BY <1>1, <1>2, <1>3, <1>4, <1>5, <1>6, <1>7
-----------------------------------------------------------------------------
(* Every step preserves the invariant. *)

LEMMA InitMInv == ProgressInit => MInv
  <1> SUFFICES ASSUME ProgressInit PROVE MInv
    OBVIOUS
  <1>1. /\ Init /\ Web!WebInit /\ inbox = <<>> /\ cut = FALSE /\ plan \in Cases
        /\ moved = NoneMoved
    BY DEF ProgressInit, MasterInit
  <1>2. IInv
    BY <1>1, InitIInv
  <1>3. state = "MR_OFFLINE" /\ type = "TP_UNKNOWN"
    BY <1>1 DEF Init
  <1>4. /\ requests = << Request("REQ_INIT") >> /\ hasInited = FALSE /\ webState = "WEB_IDLE"
        /\ work = "none" /\ handle = FALSE /\ blocked = "no"
        /\ seen = Web!Nothing /\ backend = Web!Nothing
    BY <1>1 DEF Web!WebInit, Web!Request, Request
  <1>5. QueuesOK
    <2>1. requests \in Seq(AnyRequest) /\ inbox \in Seq(AnyEvent)
      BY <1>1, <1>4 DEF AnyRequest
    <2>2. Web!Nothing \in Web!Wanted
      BY DEF Web!Nothing, Web!Wanted
    <2>3. moved \in [Domain -> 0 .. Size]
      BY <1>1, ProgressAssumption DEF NoneMoved
    <2> QED
      BY <1>1, <1>4, <2>1, <2>2, <2>3 DEF QueuesOK
  <1>6. Boot
    BY <1>1, <1>3, <1>4 DEF Boot
  <1>7. Worked /\ PullFollowed
    BY <1>4 DEF Worked, PullFollowed, Ends
  <1>8. WaitsForSomething
    BY <1>3 DEF WaitsForSomething, Waiting
  <1> QED
    BY <1>2, <1>5, <1>6, <1>7, <1>8 DEF MInv

\* What a step of the server posts goes to the web queue; nobody who is awaited there
\* is lost.
LEMMA PostingEffect ==
  ASSUME MInv, Posting, posted' \in Seq(AnyRequest), inbox' \in Seq(AnyEvent),
         moved' = moved, plan' = plan
  PROVE  /\ QueuesOK' /\ Worked'
         /\ UNCHANGED <<hasInited, work, blocked, webState, behind>>
         /\ Awaited(requests, Transfers) \/ Awaited(posted', Transfers) =>
              Awaited(requests', Transfers)
         /\ posted' = <<>> => requests' = requests /\ (~cut' => ~cut)
  <1>1. /\ requests' = requests \o posted' /\ (cut' <=> cut /\ posted' = <<>>)
        /\ UNCHANGED <<hasInited, work, handle, webState, blocked, seen, backend, behind>>
    BY DEF Posting, workerVars
  <1>2. requests \in Seq(AnyRequest)
    BY DEF MInv, QueuesOK
  <1>3. requests' \in Seq(AnyRequest)
    BY <1>1, <1>2, ConcatProperties
  <1>4. Awaited(requests, Transfers) \/ Awaited(posted', Transfers) => Awaited(requests', Transfers)
    BY <1>1, <1>2, AwaitedConcat
  <1>5. posted' = <<>> => requests' = requests
    BY <1>1, <1>2, ConcatEmptySeq
  <1> QED
    BY <1>1, <1>3, <1>4, <1>5 DEF MInv, QueuesOK, Worked

\* Who waits after an event has asked for the transfer, or the clients may pull.
LEMMA HandledEffect ==
  ASSUME MInv, IInv', inbox # <<>>, Handled(Head(inbox))
  PROVE  /\ Waiting' => \/ Awaited(posted', Transfers)
                        \/ Head(inbox).event = "REQ_PULL" /\ webState = "WEB_DISTRIBUTE"
         /\ state' # "MR_OFFLINE"
  <1> DEFINE e == Head(inbox)
  <1>1. job' \in Job /\ type' \in FeedType /\ IInv
    BY DEF IInv, TypeOK, MInv
  <1>2. e.event = "RES_INIT" <=> state = "MR_OFFLINE"
    <2>1. 1 \in DOMAIN inbox /\ e = inbox[1]
      BY HeadTailProperties, LenProperties DEF MInv, QueuesOK
    <2> QED
      BY <2>1 DEF MInv, Boot
  <1>3. e.event = "REQ_UPGRADE" => e.upgrade \in Upgrades
    BY HeadTailProperties DEF MInv, QueuesOK, AnyEvent, Outcome
  <1>4. e.event = "REQ_CANCEL" => e.id \in Id
    BY HeadTailProperties DEF MInv, QueuesOK, AnyEvent, Outcome
  <1> HIDE DEF e
  <1>5. CASE e.event = "RES_ERROR" /\ ResError
    BY <1>1, <1>2, <1>5, ErrorEffect
  <1>6. CASE \/ e.event = "RES_DOWNLOAD_DONE" /\ ResDownloadDone
             \/ e.event = "RES_VERIFY_DONE" /\ ResVerifyDone
             \/ e.event = "RES_DISTRUBUTE_DONE" /\ ResDistributeDone
    BY <1>1, <1>6, DoneEffect
  <1>7. CASE \/ e.event = "RES_INIT" /\ ResInit
             \/ e.event = "REQ_IDLE" /\ ReqIdle
             \/ e.event = "REQ_UPGRADE" /\ ReqUpgrade(e.upgrade)
             \/ e.event = "REQ_CANCEL" /\ ReqCancel(e.id)
    BY <1>3, <1>4, <1>7, BackendEffect
  <1>8. CASE e.event = "REQ_PULL" /\ ReqPull(webState = "WEB_DISTRIBUTE")
    BY <1>8, PullEffect DEF e
  <1> QED
    BY <1>5, <1>6, <1>7, <1>8 DEF Handled, e

\* An event of the web queue, for the server.
LEMMA OtherMInv ==
  ASSUME MInv, OtherEvent
  PROVE  MInv'
  <1>1. /\ WebEvent /\ inbox # <<>> /\ inbox' = Tail(inbox) /\ plan' = plan /\ moved' = moved
        /\ OtherEvent
    BY DEF OtherEvent, WebEvent
  <1>2. ProgressNext
    BY <1>1 DEF ProgressNext
  <1>3. IInv' /\ (Next => posted' \in Seq(AnyRequest))
    BY <1>2, StepServer
  <1>4. /\ inbox' \in Seq(AnyEvent)
        /\ hasInited
        /\ \A i \in DOMAIN inbox' : inbox'[i].event # "RES_INIT"
        /\ UNCHANGED <<work, webState, blocked, behind>> => PullFollowed'
        /\ Head(inbox).event \notin Outcome /\ Awaited(inbox, Outcome) => Awaited(inbox', Outcome)
    BY <1>1, TakenEvent
  <1>5. CASE Handled(Head(inbox)) /\ Posting
    <2>1. posted' \in Seq(AnyRequest)
      BY <1>1, <1>3, <1>5, HandledIsStep DEF MInv, Next
    <2>2. /\ QueuesOK' /\ Worked'
          /\ UNCHANGED <<hasInited, work, blocked, webState, behind>>
          /\ Awaited(posted', Transfers) => Awaited(requests', Transfers)
      BY <1>1, <1>4, <1>5, <2>1, PostingEffect
    <2>3. /\ Waiting' => \/ Awaited(posted', Transfers)
                         \/ Head(inbox).event = "REQ_PULL" /\ webState = "WEB_DISTRIBUTE"
          /\ state' # "MR_OFFLINE"
      BY <1>1, <1>3, <1>5, HandledEffect
    <2>4. Boot'
      BY <1>4, <2>2, <2>3 DEF Boot
    <2>5. ASSUME Head(inbox).event = "REQ_PULL", webState = "WEB_DISTRIBUTE", ~behind
          PROVE  Carried'
      <3>1. CASE Busy
        BY <2>2, <3>1 DEF Carried, Busy
      <3>2. CASE ~Busy
        <4>1. 1 \in DOMAIN inbox /\ inbox[1].event = "REQ_PULL"
          BY <1>1, <2>5, HeadTailProperties, LenProperties DEF MInv, QueuesOK
        <4>2. PICK k \in DOMAIN inbox : k > 1 /\ inbox[k].event \in Outcome
          BY <2>5, <3>2, <4>1 DEF MInv, PullFollowed, Ends
        <4>3. "REQ_PULL" \notin Outcome
          BY DEF Outcome
        <4> QED
          BY <1>4, <2>5, <4>2, <4>3 DEF Carried, Awaited
      <3> QED
        BY <3>1, <3>2
    <2>6. WaitsForSomething'
      BY <2>2, <2>3, <2>5 DEF WaitsForSomething, Carried, Busy
    <2> QED
      BY <1>3, <1>4, <2>2, <2>4, <2>6 DEF MInv
  <1>6. CASE Ignored(Head(inbox))
    <2>1. /\ UNCHANGED <<state, hasFeed, type, cut, behind, requests, hasInited, work, handle, webState,
                         blocked, seen, backend>>
          /\ Confirming \/ Head(inbox).event = "REQ_PULL"
      BY <1>6 DEF Ignored, historyVars, vars, requestVars, webVars, workerVars
    <2>2. QueuesOK' /\ Worked'
      BY <1>1, <1>4, <2>1 DEF MInv, QueuesOK, Worked
    <2>3. state # "MR_OFFLINE"
      <3>1. 1 \in DOMAIN inbox /\ Head(inbox) = inbox[1]
        BY <1>1, HeadTailProperties, LenProperties DEF MInv, QueuesOK
      <3> QED
        BY <1>1, <1>4, <2>1, <3>1 DEF MInv, Boot, Confirming
    <2>4. Boot'
      BY <1>4, <2>1, <2>3 DEF Boot
    <2>5. "REQ_PULL" \notin Outcome
      BY DEF Outcome
    <2>6. WaitsForSomething'
      BY <1>4, <2>1, <2>5 DEF MInv, WaitsForSomething, Waiting, Answered, Carried, Confirming,
                           Busy
    <2> QED
      BY <1>3, <1>4, <2>1, <2>2, <2>4, <2>6 DEF MInv
  <1> QED
    BY <1>1, <1>5, <1>6 DEF WebEvent

\* A report of a domain, or the timer.
LEMMA ServerAloneMInv ==
  ASSUME MInv, DomainReports \/ Tick
  PROVE  MInv'
  <1>1. /\ Posting /\ inbox' = inbox /\ plan' = plan /\ moved' = moved
        /\ DomainReports \/ TimerStep
    BY DEF DomainReports, Tick
  <1>2. /\ IInv' /\ job' \in Job /\ type' \in FeedType
        /\ Next => posted' \in Seq(AnyRequest)
    BY StepServer DEF ProgressNext
  <1>3. DomainStep \/ TimerStep
    BY <1>1, ReportIsStep DEF MInv
  <1>4. /\ Waiting' => Awaited(posted', Transfers) \/ (Waiting /\ posted' = <<>>)
        /\ state' = "MR_OFFLINE" <=> state = "MR_OFFLINE"
        /\ state = "MR_OFFLINE" => posted' = <<>>
    BY <1>2, <1>3, ReportEffect, TimerEffect DEF MInv
  <1>5. inbox' \in Seq(AnyEvent)
    BY <1>1 DEF MInv, QueuesOK
  <1>6. posted' \in Seq(AnyRequest)
    BY <1>2, <1>3 DEF Next
  <1>7. /\ QueuesOK' /\ Worked'
        /\ UNCHANGED <<hasInited, work, blocked, webState, behind>>
        /\ Awaited(requests, Transfers) \/ Awaited(posted', Transfers) =>
             Awaited(requests', Transfers)
        /\ posted' = <<>> => requests' = requests /\ (~cut' => ~cut)
    BY <1>1, <1>5, <1>6, PostingEffect
  <1>8. Boot'
    BY <1>1, <1>4, <1>7 DEF MInv, Boot
  <1>9. PullFollowed'
    BY <1>1, <1>7 DEF MInv, PullFollowed, Ends, Busy
  <1>10. WaitsForSomething'
    BY <1>1, <1>4, <1>7 DEF MInv, WaitsForSomething, Carried, Busy
  <1> QED
    BY <1>2, <1>7, <1>8, <1>9, <1>10 DEF MInv

\* A report on transfers is taken, or added by the worker.
LEMMA TransferMInv ==
  ASSUME MInv, TransferEvent \/ Move
  PROVE  MInv'
  <1>1. IInv'
    BY StepServer DEF ProgressNext
  <1>2. CASE TransferEvent
    <2>1. /\ inbox # <<>> /\ Head(inbox).event = "RES_TRANSFER_PROGRESS"
          /\ inbox' = Tail(inbox)
          /\ UNCHANGED <<state, hasFeed, type, cut, behind, requests, hasInited, work, handle, webState,
                         blocked, seen, backend, plan, moved>>
      BY <1>2 DEF TransferEvent, AtTransfer, historyVars, vars, requestVars, webVars, workerVars
    <2>2. /\ inbox' \in Seq(AnyEvent)
          /\ hasInited
          /\ \A i \in DOMAIN inbox' : inbox'[i].event # "RES_INIT"
          /\ PullFollowed'
          /\ Head(inbox).event \notin Outcome /\ Awaited(inbox, Outcome) =>
               Awaited(inbox', Outcome)
      BY <2>1, TakenEvent
    <2>3. "RES_TRANSFER_PROGRESS" \notin Outcome
      BY DEF Outcome
    <2>4. QueuesOK' /\ Worked'
      BY <2>1, <2>2 DEF MInv, QueuesOK, Worked
    <2>5. Boot'
      BY <2>1, <2>2 DEF MInv, Boot
    <2>6. WaitsForSomething'
      BY <2>1, <2>2, <2>3 DEF MInv, WaitsForSomething, Waiting, Answered, Carried, Busy
    <2> QED
      BY <1>1, <2>2, <2>4, <2>5, <2>6 DEF MInv
  <1>3. CASE Move
    <2> DEFINE e == [event |-> "RES_TRANSFER_PROGRESS", moved |-> moved']
    <2>1. /\ work \in {"download", "verify", "distribute"}
          /\ inbox' = Append(inbox, e)
          /\ UNCHANGED <<state, hasFeed, type, cut, behind, requests, hasInited, work, handle, webState,
                         blocked, seen, backend, plan>>
      BY <1>3 DEF Move, historyVars, vars, requestVars, webVars, workerVars
    <2>2. moved' \in [Domain -> 0 .. Size]
      <3>1. WorkDomains \subseteq Domain
        BY InputAssumption DEF WorkDomains, Upgrade
      <3>2. PICK d \in WorkDomains : \E n \in moved[d] + 1 .. Size : moved' = [moved EXCEPT ![d] = n]
        BY <1>3 DEF Move
      <3>3. moved[d] \in 0 .. Size /\ Size \in Nat /\ moved \in [Domain -> 0 .. Size]
        BY <3>1, ProgressAssumption DEF MInv, QueuesOK
      <3>4. moved[d] + 1 .. Size \subseteq 0 .. Size
        BY <3>3
      <3> QED
        BY <3>2, <3>3, <3>4
    <2>3. e \in AnyEvent /\ e.event = "RES_TRANSFER_PROGRESS"
      BY <2>2 DEF AnyEvent
    <2> HIDE DEF e
    <2>4. /\ inbox' \in Seq(AnyEvent) /\ inbox' # <<>>
          /\ inbox # <<>> => Head(inbox') = Head(inbox)
          /\ \A i \in DOMAIN inbox' : inbox'[i].event = "RES_INIT" => i = 1 /\ state = "MR_OFFLINE"
          /\ PullFollowed'
          /\ Awaited(inbox, Outcome) => Awaited(inbox', Outcome)
      BY <2>1, <2>3, AddedEvent DEF Ends, Busy
    <2>5. QueuesOK' /\ Worked'
      BY <2>1, <2>2, <2>4 DEF MInv, QueuesOK, Worked
    <2>6. Boot'
      BY <2>1, <2>4 DEF MInv, Boot
    <2>7. WaitsForSomething'
      BY <2>1, <2>4 DEF MInv, WaitsForSomething, Waiting, Answered, Carried, Busy
    <2> QED
      BY <1>1, <2>4, <2>5, <2>6, <2>7 DEF MInv
  <1> QED
    BY <1>2, <1>3

\* A request for a transfer that is taken is worked on.
LEMMA TakenRequest ==
  ASSUME WebEffect, requests \in Seq(AnyRequest), Taken(Transfers)
  PROVE  Busy'
  <1>1. requests # <<>> /\ requests' = Tail(requests) /\ Head(requests).event \in Transfers
    BY DEF Taken
  <1>2. Len(requests') # Len(requests)
    BY <1>1, HeadTailProperties
  <1> QED
    BY <1>1, <1>2 DEF WebEffect

\* A step of the web queue, its worker or the backend.
LEMMA WebMInv ==
  ASSUME MInv, WebEvents
  PROVE  MInv'
  <1>1. /\ WebQueueStep /\ plan' = plan /\ inbox' = inbox \o answers'
        /\ UNCHANGED <<state, hasFeed, type>>
        /\ ~cut' => ~cut /\ ~(Stops /\ state \in {"MR_DOWNLOAD", "MR_VERIFY", "MR_DISTRIBUTE"})
        /\ moved' \in {moved, NoneMoved}
    BY DEF WebEvents, WebQueueStep, vars, requestVars, Stops, Taken
  <1>2. WebEffect
    BY <1>1, WebQueueEffect
  <1>3. IInv'
    BY StepServer DEF ProgressNext
  <1>4. inbox \in Seq(AnyEvent) /\ requests \in Seq(AnyRequest)
    BY DEF MInv, QueuesOK
  <1>5. requests' \in Seq(AnyRequest)
    BY <1>2, <1>4, HeadTailProperties DEF WebEffect
  <1>6. Worked' /\ moved' \in [Domain -> 0 .. Size]
    BY <1>1, <1>2, ProgressAssumption DEF WebEffect, MInv, QueuesOK, NoneMoved
  <1>7. \/ Busy'
        \/ Awaited(requests, Transfers) => Awaited(requests', Transfers)
    BY <1>2, <1>4, AwaitedTail DEF WebEffect
  <1>8. Waiting' /\ ~cut' => Waiting /\ ~cut /\ ~Stops
    BY <1>1 DEF Waiting, Answered
  <1>11. ~behind' => Busy' \/ (~behind /\ ~Outrun)
    <2>1. Taken(Transfers) => Busy'
      BY <1>2, <1>4, TakenRequest
    <2>2. ~Taken(Transfers) /\ (behind \/ Outrun) => behind'
      BY <1>1 DEF WebQueueStep, Outrun
    <2> QED
      BY <2>1, <2>2
  <1>12. Ends' /\ ~behind' => (Ends /\ ~behind) \/ Awaited(answers', Outcome)
    BY <1>2, <1>11 DEF WebEffect, Ends
  <1>9. CASE answers' = <<>>
    <2>1. inbox' = inbox
      BY <1>1, <1>4, <1>9, ConcatEmptySeq
    <2>2. ~Awaited(answers', Outcome)
      BY <1>9 DEF Awaited
    <2>3. QueuesOK'
      BY <1>1, <1>2, <1>5, <1>6, <2>1 DEF WebEffect, MInv, QueuesOK
    <2>4. hasInited' <=> hasInited
      BY <1>2, <1>9 DEF WebEffect
    <2>5. Boot'
      BY <1>1, <1>2, <2>1, <2>4 DEF WebEffect, MInv, Boot
    <2>6. PullFollowed'
      BY <1>12, <2>1, <2>2 DEF MInv, PullFollowed
    <2>7. WaitsForSomething'
      <3>1. Waiting' /\ ~cut' /\ ~behind' /\ ~Busy' => Waiting /\ ~cut /\ ~behind /\ ~Stops
        BY <1>8, <1>11
      <3>2. Busy => Busy' \/ Stops
        BY <1>2, <2>2 DEF WebEffect
      <3> QED
        BY <1>7, <2>1, <3>1, <3>2 DEF MInv, WaitsForSomething, Carried
    <2> QED
      BY <1>3, <1>6, <2>3, <2>5, <2>6, <2>7 DEF MInv
  <1>10. CASE answers' # <<>>
    <2>1. PICK e \in AnyEvent : /\ answers' = <<e>>
                                /\ e.event = "RES_INIT" => ~hasInited
                                /\ e.event = "REQ_PULL" /\ Ends' => Outrun
      BY <1>2, <1>10 DEF WebEffect
    <2>2. inbox' = Append(inbox, e)
      BY <1>1, <1>4, <2>1, AppendIsConcat
    <2>3. /\ inbox' \in Seq(AnyEvent) /\ inbox' # <<>>
          /\ inbox # <<>> => Head(inbox') = Head(inbox)
          /\ inbox = <<>> => Head(inbox') = e
          /\ \A i \in DOMAIN inbox' :
               inbox'[i].event = "RES_INIT" /\ e.event # "RES_INIT" => i = 1 /\ state = "MR_OFFLINE"
          /\ e.event # "REQ_PULL" /\ (Ends' /\ ~behind' => Ends /\ ~behind) => PullFollowed'
          /\ e.event \in Outcome => PullFollowed'
          /\ Awaited(inbox, Outcome) \/ e.event \in Outcome => Awaited(inbox', Outcome)
      BY <2>2, AddedEvent
    <2>4. Awaited(answers', Outcome) <=> e.event \in Outcome
      BY <2>1 DEF Awaited
    <2>5. QueuesOK'
      BY <1>1, <1>2, <1>5, <1>6, <2>3 DEF WebEffect, MInv, QueuesOK
    <2>6. hasInited'
      BY <1>2, <2>1 DEF WebEffect
    <2>7. Boot'
      <3>1. CASE hasInited
        BY <1>1, <2>1, <2>3, <2>6, <3>1 DEF MInv, Boot
      <3>2. CASE ~hasInited
        <4>1. e.event = "RES_INIT"
          BY <1>2, <2>1, <2>6, <3>2 DEF WebEffect
        <4>2. inbox = <<>> /\ state' = "MR_OFFLINE"
          BY <1>1, <3>2 DEF MInv, Boot
        <4>3. DOMAIN inbox' = {1}
          BY <1>4, <2>2, <4>2, AppendProperties, LenProperties
        <4> QED
          BY <2>3, <2>6, <4>1, <4>2, <4>3 DEF Boot
      <3> QED
        BY <3>1, <3>2
    <2>8. PullFollowed'
      <3>1. CASE ~(Ends' /\ ~behind')
        BY <3>1 DEF PullFollowed
      <3>2. CASE Ends' /\ ~behind'
        <4>1. e.event # "REQ_PULL"
          BY <1>11, <2>1, <3>2 DEF Ends
        <4> QED
          BY <1>12, <2>3, <2>4, <4>1
      <3> QED
        BY <3>1, <3>2
    <2>9. WaitsForSomething'
      <3>1. Waiting' /\ ~cut' /\ ~behind' /\ ~Busy' => Waiting /\ ~cut /\ ~behind /\ ~Stops
        BY <1>8, <1>11
      <3>2. Busy => Busy' \/ Stops \/ e.event \in Outcome
        BY <1>2, <2>4 DEF WebEffect
      <3> QED
        BY <1>7, <2>3, <3>1, <3>2 DEF MInv, WaitsForSomething, Carried
    <2> QED
      BY <1>3, <1>6, <2>5, <2>7, <2>8, <2>9 DEF MInv
  <1> QED
    BY <1>9, <1>10

\* The process ends and starts again.
LEMMA RestartMInv ==
  ASSUME MInv, ProgressRestart
  PROVE  MInv'
  <1>1. /\ state' = "MR_OFFLINE" /\ type' = "TP_UNKNOWN"
        /\ inbox' = <<>> /\ requests' = << Request("REQ_INIT") >>
        /\ webState' = "WEB_IDLE" /\ hasInited' = FALSE
        /\ work' = "none" /\ handle' = FALSE /\ blocked' = "no" /\ seen' = Web!Nothing
        /\ UNCHANGED <<backend, plan>> /\ moved' = NoneMoved
    BY DEF ProgressRestart, MasterRestart, Restart
  <1>2. IInv'
    BY StepServer DEF ProgressNext
  <1>3. QueuesOK'
    <2>1. requests' \in Seq(AnyRequest) /\ inbox' \in Seq(AnyEvent)
      BY <1>1 DEF AnyRequest
    <2>2. Web!Nothing \in Web!Wanted
      BY DEF Web!Nothing, Web!Wanted
    <2>3. moved' \in [Domain -> 0 .. Size]
      BY <1>1, ProgressAssumption DEF NoneMoved
    <2> QED
      BY <1>1, <2>1, <2>2, <2>3 DEF MInv, QueuesOK
  <1>4. Boot' /\ Worked' /\ PullFollowed'
    BY <1>1 DEF Worked, Boot, PullFollowed, Ends
  <1>5. WaitsForSomething'
    BY <1>1 DEF WaitsForSomething, Waiting
  <1> QED
    BY <1>2, <1>3, <1>4, <1>5 DEF MInv

LEMMA StepMInv == MInv /\ [ProgressNext]_progressVars => MInv'
  <1> SUFFICES ASSUME MInv, [ProgressNext]_progressVars PROVE MInv'
    OBVIOUS
  <1>1. CASE UNCHANGED progressVars
    <2>1. IInv'
      BY StepServer
    <2>2. UNCHANGED <<state, hasFeed, type, cut, behind, requests, inbox, hasInited, work, handle,
                      webState, blocked, seen, backend, plan, moved>>
      BY <1>1 DEF progressVars, masterVars, historyVars, vars, requestVars, webVars, workerVars
    <2> QED
      BY <2>1, <2>2 DEF MInv, QueuesOK, Boot, Worked, PullFollowed,
                        Ends, Busy, WaitsForSomething, Waiting, Answered, Carried
  <1> QED
    BY <1>1, OtherMInv, ServerAloneMInv, TransferMInv, WebMInv, RestartMInv DEF ProgressNext

-----------------------------------------------------------------------------
(* Sums of amounts. *)

\* The sum is that of one amount, and of the rest.
Pick(s) == CHOOSE x \in s : TRUE
SumsUp(f, it, subsets) ==
  it = [s \in subsets |-> IF s = {} THEN 0 ELSE f[Pick(s)] + it[s \ {Pick(s)}]]
UpTo(T, n) == {s \in SUBSET T : Cardinality(s) <= n}

\* The smallest number of a kind.
LEMMA Smallest ==
  ASSUME NEW S \in SUBSET Nat, S # {}
  PROVE  \E n \in S : \A m \in S : ~(m < n)
  <1>1. PICK n \in S : \A m \in S : <<m, n>> \notin OpToRel(<, Nat)
    BY NatLessThanWellFounded, WFMin
  <1> QED
    BY <1>1 DEF OpToRel

\* Without one element a set is smaller by one.
LEMMA PickOne ==
  ASSUME NEW T, IsFiniteSet(T), NEW s \in SUBSET T, s # {}
  PROVE  /\ Pick(s) \in s /\ s \ {Pick(s)} \in SUBSET T
         /\ Cardinality(s) \in Nat \ {0}
         /\ Cardinality(s \ {Pick(s)}) = Cardinality(s) - 1
  <1>1. Pick(s) \in s
    BY DEF Pick
  <1>2. IsFiniteSet(s) /\ Cardinality(s) \in Nat
    BY FS_Subset, FS_CardinalityType
  <1>3. Cardinality(s) # 0
    BY <1>2, FS_EmptySet
  <1>4. Cardinality(s \ {Pick(s)}) = Cardinality(s) - 1
    BY <1>1, <1>2, FS_RemoveElement
  <1> QED
    BY <1>1, <1>2, <1>3, <1>4

\* There is such a sum for the subsets of a finite set.
LEMMA SumExists ==
  ASSUME NEW f, NEW T, IsFiniteSet(T)
  PROVE  \E it : SumsUp(f, it, SUBSET T)
  <1> DEFINE Bad == {n \in Nat : ~ \E it : SumsUp(f, it, UpTo(T, n))}
  <1>1. ASSUME Bad # {} PROVE FALSE
    <2>1. PICK n \in Bad : \A m \in Bad : ~(m < n)
      BY <1>1, Smallest
    <2>8. n \in Nat /\ ~ \E it : SumsUp(f, it, UpTo(T, n))
      OBVIOUS
    <2>9. ASSUME NEW m \in Nat, m \notin Bad PROVE \E it : SumsUp(f, it, UpTo(T, m))
      BY <2>9
    <2> HIDE DEF Bad
    <2>2. CASE n = 0
      <3> DEFINE h == [s \in UpTo(T, n) |-> 0]
      <3>1. ASSUME NEW s \in UpTo(T, n) PROVE s = {}
        <4>1. s \in SUBSET T /\ Cardinality(s) <= 0
          BY <2>2 DEF UpTo
        <4>2. ASSUME s # {} PROVE Cardinality(s) \in Nat \ {0}
          BY <4>1, <4>2, PickOne
        <4> QED
          BY <4>1, <4>2
      <3>2. SumsUp(f, h, UpTo(T, n))
        BY <3>1 DEF SumsUp
      <3> QED
        BY <2>8, <3>2
    <2>3. CASE n # 0
      <3>1. n - 1 \in Nat /\ n - 1 \notin Bad
        BY <2>1, <2>3, <2>8
      <3>2. PICK h : SumsUp(f, h, UpTo(T, n - 1))
        BY <2>9, <3>1
      <3> DEFINE g == [s \in UpTo(T, n) |->
                         IF s = {} THEN 0 ELSE f[Pick(s)] + h[s \ {Pick(s)}]]
      <3>3. ASSUME NEW s \in UpTo(T, n), s # {}
            PROVE  g[s \ {Pick(s)}] = h[s \ {Pick(s)}]
        <4> DEFINE r == s \ {Pick(s)}
        <4>1. r \in UpTo(T, n - 1) /\ r \in UpTo(T, n)
          BY <2>8, <3>3, PickOne DEF UpTo
        <4> HIDE DEF r
        <4>2. h[r] = IF r = {} THEN 0 ELSE f[Pick(r)] + h[r \ {Pick(r)}]
          BY <3>2, <4>1 DEF SumsUp
        <4>3. g[r] = IF r = {} THEN 0 ELSE f[Pick(r)] + h[r \ {Pick(r)}]
          BY <4>1
        <4> QED
          BY <4>2, <4>3 DEF r
      <3>4. SumsUp(f, g, UpTo(T, n))
        BY <3>3 DEF SumsUp
      <3> QED
        BY <2>8, <3>4
    <2> QED
      BY <2>2, <2>3
  <1>2. Cardinality(T) \in Nat /\ UpTo(T, Cardinality(T)) = SUBSET T
    BY FS_CardinalityType, FS_Subset DEF UpTo
  <1> QED
    BY <1>1, <1>2

\* A sum of amounts of which none is more than B.
LEMMA SumBound ==
  ASSUME NEW f, NEW T, IsFiniteSet(T), NEW B \in Nat,
         \A x \in T : f[x] \in 0 .. B
  PROVE  Sum(f, T) \in 0 .. B * Cardinality(T)
  <1> DEFINE it == CHOOSE g : SumsUp(f, g, SUBSET T)
  <1>1. Sum(f, T) = it[T]
    BY DEF Sum, MapThenSumSet, MapThenFoldSet, SumsUp, Pick
  <1>2. SumsUp(f, it, SUBSET T)
    BY SumExists
  <1> HIDE DEF it
  <1>3. it[{}] = 0
    BY <1>2 DEF SumsUp
  <1>4. ASSUME NEW s \in SUBSET T, s # {}
        PROVE  it[s] = f[Pick(s)] + it[s \ {Pick(s)}]
    BY <1>2, <1>4 DEF SumsUp
  <1> DEFINE Bad == {n \in Nat : \E s \in SUBSET T : Cardinality(s) = n /\ it[s] \notin 0 .. B * n}
  <1>5. ASSUME Bad # {} PROVE FALSE
    <2>1. PICK n \in Bad : \A m \in Bad : ~(m < n)
      BY <1>5, Smallest
    <2>2. PICK s \in SUBSET T : Cardinality(s) = n /\ it[s] \notin 0 .. B * n
      BY <2>1
    <2>8. ASSUME NEW m \in Nat, m \notin Bad, NEW r \in SUBSET T, Cardinality(r) = m
          PROVE  it[r] \in 0 .. B * m
      BY <2>8
    <2>9. n \in Nat
      OBVIOUS
    <2> HIDE DEF Bad
    <2>3. s # {}
      <3>1. ASSUME s = {} PROVE n = 0 /\ B * 0 = 0
        BY <2>2, <3>1, FS_EmptySet
      <3> QED
        BY <1>3, <2>2, <3>1
    <2> DEFINE r == s \ {Pick(s)}
    <2>4. r \in SUBSET T /\ Cardinality(r) = n - 1 /\ n - 1 \in Nat /\ Pick(s) \in T
      <3>1. /\ Cardinality(s) \in Nat \ {0} /\ Pick(s) \in s
            /\ r \in SUBSET T /\ Cardinality(r) = Cardinality(s) - 1
        BY <2>3, PickOne
      <3> HIDE DEF r
      <3> QED
        BY <2>9, <2>2, <3>1
    <2>5. it[s] = f[Pick(s)] + it[r]
      BY <1>4, <2>3
    <2> HIDE DEF r
    <2>6. it[r] \in 0 .. B * (n - 1)
      <3>1. n - 1 \in Nat /\ n - 1 < n
        BY <2>9, <2>4
      <3>2. n - 1 \notin Bad
        BY <2>1, <3>1
      <3> QED
        BY <2>4, <2>8, <3>1, <3>2
    <2>7. /\ B * (n - 1) + B = B * n /\ B * (n - 1) \in Nat
          /\ f[Pick(s)] \in 0 .. B
      <3>1. \A k \in Nat : B * k + B = B * (k + 1) /\ B * k \in Nat
        OBVIOUS
      <3> QED
        BY <2>9, <2>4, <3>1
    <2> QED
      BY <2>2, <2>5, <2>6, <2>7
  <1>6. Cardinality(T) \in Nat
    BY FS_CardinalityType
  <1> QED
    BY <1>1, <1>5, <1>6

\* A share of a, in proportion to a part of the whole, is not more than a.
LEMMA ShareBound ==
  ASSUME NEW a \in Nat, NEW c \in Nat, NEW t \in Nat \ {0}, c <= t
  PROVE  (a * c) \div t \in 0 .. a
  <1> DEFINE q == (a * c) \div t
  <1>1. q \in Int /\ t * q <= a * c /\ a * c < t * (q + 1)
    OBVIOUS
  <1>2. a * c <= a * t
    OBVIOUS
  <1> HIDE DEF q
  <1>3. q <= a
    <2>1. SUFFICES ASSUME q >= a + 1 PROVE FALSE
      BY <1>1
    <2>2. t * q >= t * (a + 1)
      BY <1>1, <2>1
    <2>3. t * (a + 1) = a * t + t
      OBVIOUS
    <2> QED
      BY <1>1, <1>2, <2>2, <2>3
  <1>4. q >= 0
    <2>1. SUFFICES ASSUME q + 1 <= 0 PROVE FALSE
      BY <1>1
    <2>2. t * (q + 1) <= 0
      BY <1>1, <2>1
    <2>3. a * c >= 0
      OBVIOUS
    <2> QED
      BY <1>1, <2>2, <2>3
  <1> QED
    BY <1>1, <1>3, <1>4 DEF q

-----------------------------------------------------------------------------
(* The bar: before any files are complete the server is early in the upgrade. *)

Far == {"MR_VERIFY", "MR_DISTRIBUTE", "MR_WAIT", "MR_DEPLOY", "MR_DEPLOY_ASK",
        "MR_RESUME_ASK"}
Later == {"REQ_VERIFY", "REQ_DISTRIBUTE"}
LaterHandler == Later \cup {"listen", "serving"}
LateEvent == {"RES_DOWNLOAD_DONE", "RES_VERIFY_DONE", "RES_DISTRUBUTE_DONE", "REQ_PULL"}

\* It is in no later state, and nothing can take it up again from there.
EarlyServer ==
  /\ state \notin Far
  /\ status.state # "MR_DEPLOY" /\ cacheState # "MR_DEPLOY" /\ ~hasDeployBreaked

\* The web queue does nothing that needs the files, and has nothing to tell of it.
EarlyWeb ==
  /\ ~Awaited(requests, Later) /\ ~Awaited(inbox, LateEvent)
  /\ work \notin {"verify", "distribute"} /\ webState \in {"WEB_IDLE", "WEB_DOWNLOAD"}
  /\ blocked \notin LaterHandler

EarlyBar == state # "MR_DONE_ASK" => ~(progress > Percent(30))
EarlyInv == stored = {} => EarlyServer /\ EarlyWeb /\ EarlyBar

\* Where the bar may be in its second half.
Over == progress > Percent(50) => state \in {"MR_DEPLOY", "MR_DONE_ASK"} \cup Keeps

WebStates == {"WEB_IDLE", "WEB_DOWNLOAD", "WEB_VERIFY", "WEB_DISTRIBUTE"}
AInv == MInv /\ EarlyInv /\ Over /\ webState \in WebStates

\* What an early server may post.
Harmless == WebFeedback \cup {Request(r) : r \in {"REQ_STOP", "REQ_CHECK", "REQ_DOWNLOAD"}}

LEMMA HarmlessEvents ==
  /\ \A r \in {"REQ_STOP", "REQ_CHECK", "REQ_DOWNLOAD"} : << Request(r) >> \in Seq(Harmless)
  /\ \A t \in FeedType, id \in Id \cup {NoId}, x \in Execution, r \in Result :
       << WebFeed(t, id, x, r) >> \in Seq(Harmless)
  /\ <<>> \in Seq(Harmless)
  <1>1. ASSUME NEW e \in Harmless PROVE <<e>> \in Seq(Harmless)
    OBVIOUS
  <1>2. \A r \in {"REQ_STOP", "REQ_CHECK", "REQ_DOWNLOAD"} : Request(r) \in Harmless
    BY DEF Harmless
  <1>3. \A t \in FeedType, id \in Id \cup {NoId}, x \in Execution, r \in Result :
          WebFeed(t, id, x, r) \in Harmless
    BY DEF Harmless, WebFeed, WebFeedback
  <1>4. <<>> \in Seq(Harmless)
    OBVIOUS
  <1> HIDE DEF Harmless
  <1> QED
    BY <1>1, <1>2, <1>3, <1>4

\* Nothing in it asks for a later phase.
LEMMA HarmlessQuiet ==
  ASSUME NEW q \in Seq(Harmless) PROVE ~Awaited(q, Later)
  <1>1. \A e \in Harmless : e.event \notin Later
    BY DEF Harmless, Later, WebFeedback, Request
  <1>2. \A i \in DOMAIN q : q[i] \in Harmless
    BY ElementOfSeq, LenProperties
  <1> QED
    BY <1>1, <1>2 DEF Awaited

LEMMA HarmlessSetState ==
  ASSUME NEW from, NEW new, NEW before \in Seq(Harmless), NEW after \in Seq(Harmless),
         job' \in Job, type' \in FeedType, status.state # "MR_DEPLOY", new # "MR_DEPLOY",
         SetState(from, new, before, after)
  PROVE  state' = new /\ posted' \in Seq(Harmless) /\ status'.state # "MR_DEPLOY"
  <1>1. job'.upgrade.id \in Id \cup {NoId} /\ job'.cancelId \in Id \cup {NoId}
    BY DEF Job, Upgrade, NoUpgrade
  <1>2. Changed(from, new, type', job') \in Seq(Harmless)
    BY <1>1, HarmlessEvents DEF Changed, Proceeding, FeedType, Execution, Result
  <1>3. /\ posted' = (before \o Changed(from, new, type', job')) \o after
        /\ state' = new
        /\ status' = status \/ status' = [state |-> new, depends |-> job'.depends]
    BY DEF SetState
  <1>4. before \o Changed(from, new, type', job') \in Seq(Harmless)
    BY <1>2, ConcatProperties
  <1>5. posted' \in Seq(Harmless)
    BY <1>3, <1>4, ConcatProperties
  <1> QED
    BY <1>3, <1>5

LEMMA HarmlessFeedback ==
  ASSUME NEW finished, NEW from, NEW j \in Job, NEW before \in Seq(Harmless), NEW message,
         NEW after \in Seq(Harmless),
         job' \in Job, type' \in FeedType, status.state # "MR_DEPLOY",
         Feedback(finished, from, j, before, message, after)
  PROVE  /\ state' \in {"MR_DONE_ASK", "MR_ERROR_ASK", "MR_IDLE"}
         /\ posted' \in Seq(Harmless) /\ status'.state # "MR_DEPLOY"
  <1>1. FeedId(type', j) \in Id \cup {NoId}
    BY DEF FeedId, Job, Upgrade, NoUpgrade
  <1> DEFINE result == IF finished THEN "RS_SUCCESS" ELSE "RS_FAILURE"
             stop == << Request("REQ_STOP") >>
             feed == << WebFeed(type', FeedId(type', j), "EXE_CLOSED", result) >>
  <1>2. stop \in Seq(Harmless) /\ feed \in Seq(Harmless)
    BY <1>1, HarmlessEvents DEF Execution, Result
  <1>3. Closing(finished, type', j) = stop \o feed
    BY DEF Closing
  <1> HIDE DEF stop, feed
  <1>4. before \o Closing(finished, type', j) \in Seq(Harmless)
    BY <1>2, <1>3, ConcatProperties
  <1>5. PICK new \in {"MR_DONE_ASK", "MR_ERROR_ASK", "MR_IDLE"} :
          SetState(from, new, before \o Closing(finished, type', j), after)
    BY DEF Feedback
  <1> QED
    BY <1>4, <1>5, HarmlessSetState

\* What a step of an early server may do.
EarlyStep ==
  /\ EarlyServer' /\ posted' \in Seq(Harmless)
  /\ state = "MR_DONE_ASK" => state' \notin Keeps

\* The events of an early server.
LEMMA EarlyEvent ==
  ASSUME IInv, IInv', EarlyServer,
         \/ ResInit \/ ResError \/ ReqIdle
         \/ \E u \in Upgrades : ReqUpgrade(u)
         \/ \E id \in Id : ReqCancel(id)
  PROVE  EarlyStep
  <1>1. /\ job \in Job /\ job' \in Job /\ type' \in FeedType /\ status.state # "MR_DEPLOY"
        /\ job'.cancelId \in Id \cup {NoId}
    BY DEF IInv, TypeOK, EarlyServer, Job
  <1>2. /\ <<>> \in Seq(Harmless)
        /\ \A r \in {"REQ_STOP", "REQ_CHECK", "REQ_DOWNLOAD"} : << Request(r) >> \in Seq(Harmless)
    BY HarmlessEvents
  <1>3. CASE ResInit \/ ReqIdle
    <2>1. SetState(state, "MR_IDLE", <<>>, <<>>)
      BY <1>3 DEF ResInit, ReqIdle, Idle
    <2>2. state' = "MR_IDLE" /\ posted' \in Seq(Harmless) /\ status'.state # "MR_DEPLOY"
      BY <1>1, <1>2, <2>1, HarmlessSetState
    <2> QED
      BY <1>3, <2>2 DEF ResInit, ReqIdle, EarlyStep, EarlyServer, Far, Keeps, bootVars
  <1>4. CASE RetryDownload
    <2>1. /\ SetState(state, "MR_DOWNLOAD", <<Request("REQ_CHECK")>>, <<Request("REQ_DOWNLOAD")>>)
          /\ UNCHANGED <<cacheState, hasDeployBreaked>>
      BY <1>4 DEF RetryDownload, bootVars
    <2>2. state' = "MR_DOWNLOAD" /\ posted' \in Seq(Harmless) /\ status'.state # "MR_DEPLOY"
      BY <1>1, <1>2, <2>1, HarmlessSetState
    <2> QED
      BY <2>1, <2>2 DEF EarlyStep, EarlyServer, Far, Keeps
  <1>5. CASE GiveUp
    <2>1. TryFeedback(FALSE, job, <<>>) /\ UNCHANGED <<cacheState, hasDeployBreaked>>
      BY <1>5 DEF GiveUp, bootVars
    <2>2. CASE Answered
      BY <1>2, <2>1, <2>2 DEF TryFeedback, EarlyStep, EarlyServer, Keeps
    <2>3. CASE ~Answered
      BY <1>1, <1>2, <2>1, <2>3, HarmlessFeedback
      DEF TryFeedback, EarlyStep, EarlyServer, Far, Keeps
    <2> QED
      BY <2>2, <2>3
  <1>6. ASSUME NEW u \in Upgrades, ReqUpgrade(u) PROVE EarlyStep
    <2>1. /\ SetState(state, "MR_PENDING", <<>>, <<>>)
          /\ cacheState' = cacheState
          /\ hasDeployBreaked' <=> hasDeployBreaked /\ lastlId = u.id
      BY <1>6 DEF ReqUpgrade, Pending, bootVars
    <2>2. state' = "MR_PENDING" /\ posted' \in Seq(Harmless) /\ status'.state # "MR_DEPLOY"
      BY <1>1, <1>2, <2>1, HarmlessSetState
    <2> QED
      BY <2>1, <2>2 DEF EarlyStep, EarlyServer, Far, Keeps
  <1>7. ASSUME NEW id \in Id, ReqCancel(id) PROVE EarlyStep
    <2> DEFINE j == [job EXCEPT !.cancelId = id]
               refusal == << WebFeed("TP_DEPLOY", job'.cancelId, "EXE_CLOSED", "RS_FAILURE") >>
    <2>1. j \in Job
      BY <1>1 DEF Job
    <2>2. refusal \in Seq(Harmless)
      BY <1>1, HarmlessEvents DEF FeedType, Execution, Result
    <2>3. /\ \/ Feedback(TRUE, state, j, <<>>, <<>>, <<>>)
             \/ Feedback(FALSE, state, j, <<>>, <<>>, refusal)
             \/ /\ state \in mrStateIsBusy
                /\ SetState(state, "MR_CANCEL_ASK", <<>>, <<>>)
          /\ hasDeployBreaked' <=> hasDeployBreaked \/ state = "MR_DEPLOY"
          /\ cacheState' = cacheState
      BY <1>7 DEF ReqCancel, bootVars
    <2> HIDE DEF j, refusal
    <2>4. CASE \/ Feedback(TRUE, state, j, <<>>, <<>>, <<>>)
               \/ Feedback(FALSE, state, j, <<>>, <<>>, refusal)
      <3>1. /\ state' \in {"MR_DONE_ASK", "MR_ERROR_ASK", "MR_IDLE"}
            /\ posted' \in Seq(Harmless) /\ status'.state # "MR_DEPLOY"
        BY <1>1, <1>2, <2>1, <2>2, <2>4, HarmlessFeedback
      <3> QED
        BY <2>3, <3>1 DEF EarlyStep, EarlyServer, Far, Keeps
    <2>5. CASE state \in mrStateIsBusy /\ SetState(state, "MR_CANCEL_ASK", <<>>, <<>>)
      <3>1. /\ state' = "MR_CANCEL_ASK"
            /\ posted' \in Seq(Harmless) /\ status'.state # "MR_DEPLOY"
        BY <1>1, <1>2, <2>5, HarmlessSetState
      <3> QED
        BY <2>3, <2>5, <3>1 DEF EarlyStep, EarlyServer, Far, mrStateIsBusy
    <2> QED
      BY <2>3, <2>4, <2>5
  <1> QED
    BY <1>3, <1>4, <1>5, <1>6, <1>7 DEF ResError

\* The reports of the domains, and the answers of the user.
LEMMA EarlyReport ==
  ASSUME IInv, IInv', EarlyServer, DomainStep
  PROVE  EarlyStep
  <1>1. /\ job \in Job /\ job' \in Job /\ type' \in FeedType /\ status.state # "MR_DEPLOY"
    BY DEF IInv, TypeOK, EarlyServer
  <1>2. <<>> \in Seq(Harmless) /\ << Request("REQ_DOWNLOAD") >> \in Seq(Harmless)
    BY HarmlessEvents
  <1>3. PICK d \in Domain, r \in Reports, discovery \in BOOLEAN :
          \/ ResDomain(d, r, discovery)
          \/ \E answer \in Answer : ResAnswer(d, r, discovery, answer)
    BY DEF DomainStep
  <1>4. CASE ResDomain(d, r, discovery)
    BY <1>2, <1>4 DEF ResDomain, bootVars, requestVars, EarlyStep, EarlyServer, Keeps
  <1>5. CASE \E answer \in Answer : ResAnswer(d, r, discovery, answer)
    <2> DEFINE j == Recorded(d, r)
               repeated == Repeated(d, discovery)
    <2>1. /\ Accept(j, repeated) \/ Refuse(j, repeated) \/ OtherAnswer(j, repeated)
          /\ type' = type
      BY <1>5 DEF ResAnswer
    <2>2. j \in Job
      BY InputAssumption, RecordedType DEF IInv, TypeOK
    <2> HIDE DEF j, repeated
    <2>3. CASE Accept(j, repeated)
      <3>1. /\ \/ /\ state = "MR_DOWNLOAD_ASK"
                  /\ SetState(state, "MR_DOWNLOAD", <<>>, <<Request("REQ_DOWNLOAD")>>)
               \/ state = "MR_CANCEL_ASK" /\ SetState(state, "MR_CANCEL", <<>>, <<>>)
               \/ SetState(state, "MR_IDLE", <<>>, <<>>)
            /\ UNCHANGED <<cacheState, hasDeployBreaked>>
        BY <2>3 DEF Accept, Idle, EarlyServer, Far
      <3>2. /\ state' \in {"MR_DOWNLOAD", "MR_CANCEL", "MR_IDLE"}
            /\ state' = "MR_CANCEL" => state # "MR_DONE_ASK"
            /\ posted' \in Seq(Harmless) /\ status'.state # "MR_DEPLOY"
        <4>1. CASE /\ state = "MR_DOWNLOAD_ASK"
                   /\ SetState(state, "MR_DOWNLOAD", <<>>, <<Request("REQ_DOWNLOAD")>>)
          BY <1>1, <1>2, <4>1, HarmlessSetState
        <4>2. CASE state = "MR_CANCEL_ASK" /\ SetState(state, "MR_CANCEL", <<>>, <<>>)
          BY <1>1, <1>2, <4>2, HarmlessSetState
        <4>3. CASE SetState(state, "MR_IDLE", <<>>, <<>>)
          <5>1. /\ state' = "MR_IDLE"
                /\ posted' \in Seq(Harmless) /\ status'.state # "MR_DEPLOY"
            BY <1>1, <1>2, <4>3, HarmlessSetState
          <5> QED
            BY <5>1
        <4> QED
          BY <3>1, <4>1, <4>2, <4>3
      <3> QED
        BY <3>1, <3>2 DEF EarlyStep, EarlyServer, Far, Keeps
    <2>4. CASE Refuse(j, repeated)
      <3>1. /\ state \in {"MR_DOWNLOAD_ASK", "MR_CANCEL_ASK"}
            /\ TryFeedback(FALSE, j, repeated)
            /\ UNCHANGED <<cacheState, hasDeployBreaked>>
        BY <2>4 DEF Refuse, EarlyServer, Far
      <3>2. CASE Answered
        BY <1>2, <3>1, <3>2 DEF TryFeedback, EarlyStep, EarlyServer
      <3>3. CASE ~Answered
        BY <1>1, <1>2, <2>2, <3>1, <3>3, HarmlessFeedback
        DEF TryFeedback, EarlyStep, EarlyServer, Far
      <3> QED
        BY <3>2, <3>3
    <2>5. ~OtherAnswer(j, repeated)
      BY DEF OtherAnswer, EarlyServer, Far
    <2> QED
      BY <2>1, <2>3, <2>4, <2>5
  <1> QED
    BY <1>3, <1>4, <1>5

\* The timer tells the backend of finished domains only.
LEMMA ScheduledHarmless ==
  ASSUME IInv, NEW n \in 0 .. Len(Order), NEW silent
  PROVE  Scheduled(n, silent) \in Seq(Harmless)
  <1>1. n \in Nat
    BY DomainAssumption, LenProperties
  <1>2. IsFiniteSet(1 .. n)
    BY <1>1, FS_Interval
  <1>3. FinishedBy(n, silent) \in SUBSET (1 .. n)
    BY DEF FinishedBy
  <1>4. Cardinality(FinishedBy(n, silent)) \in Nat
    BY <1>2, <1>3, FS_Subset, FS_CardinalityType
  <1>5. job.upgrade.id \in Id \cup {NoId}
    BY DEF IInv, TypeOK, Job, Upgrade, NoUpgrade
  <1> DEFINE feed == WebFeed("TP_DEPLOY", job.upgrade.id, "EXE_SCHEDULED", "RS_SUCCESS")
             k == Repeats(n, silent)
  <1>6. feed \in Harmless
    BY <1>5 DEF Harmless, WebFeed, WebFeedback, FeedType, Execution, Result
  <1>7. k \in Nat
    BY <1>4 DEF Repeats
  <1>8. Scheduled(n, silent) = [i \in 1 .. k |-> feed]
    BY DEF Scheduled
  <1> HIDE DEF k, feed
  <1> QED
    BY <1>6, <1>7, <1>8

\* The timer does not take it beyond the download.
LEMMA EarlyTimer ==
  ASSUME IInv, IInv', EarlyServer, TimerStep
  PROVE  EarlyStep
  <1>1. PICK late \in BOOLEAN, silent \in SUBSET job.heard, overdue \in SUBSET job.deploying :
          ProcessDomains(late, silent, overdue)
    BY DEF TimerStep
  <1>2. /\ job \in Job /\ job' \in Job /\ type' \in FeedType /\ status.state # "MR_DEPLOY"
        /\ Watching /\ type' = type /\ state # "MR_DONE_ASK"
        /\ UNCHANGED <<cacheState, hasDeployBreaked>>
    BY <1>1 DEF IInv, TypeOK, EarlyServer, ProcessDomains, Watching, ConfirmationCanEnd,
                Confirming, bootVars
  <1>3. <<>> \in Seq(Harmless) /\ << Request("REQ_DOWNLOAD") >> \in Seq(Harmless)
    BY HarmlessEvents
  <1>4. ASSUME NEW finished, NEW from, NEW j \in Job, NEW before \in Seq(Harmless), NEW message,
               Feedback(finished, from, j, before, message, <<>>)
        PROVE  EarlyStep
    BY <1>2, <1>3, <1>4, HarmlessFeedback DEF EarlyStep, EarlyServer, Far
  <1>5. ASSUME NEW n \in 0 .. Len(Order)
        PROVE  Scheduled(n, silent) \in Seq(Harmless) /\ After(n, silent) \in Job
    BY <1>5, ScheduledHarmless, AfterType
  <1>6. ASSUME NEW j \in Job, NEW feeds \in Seq(Harmless), NEW messages,
               Conclude(j, feeds, messages)
        PROVE  EarlyStep
    <2>1. /\ Selected(j) # "MR_RESUME_ASK" /\ Selected(j) \notin Far
          /\ Released(j) = Selected(j)
      BY DEF Released, Selected, MayResume, EarlyServer, Far
    <2>2. ASSUME NEW new PROVE feeds \o Changed(state, new, type', j) \in Seq(Harmless)
      <3>1. j.upgrade.id \in Id \cup {NoId} /\ j.cancelId \in Id \cup {NoId}
        BY DEF Job, Upgrade, NoUpgrade
      <3>2. Changed(state, new, type', j) \in Seq(Harmless)
        BY <1>3, <3>1, HarmlessEvents DEF Changed, Proceeding, FeedType, Execution, Result
      <3> QED
        BY <3>2, ConcatProperties
    <2>3. Demand(Released(j)) \in Seq(Harmless)
      BY <1>3 DEF Demand
    <2>4. feeds \o Changed(state, Released(j), type', j) \o Demand(Released(j)) \in Seq(Harmless)
      BY <2>2, <2>3, ConcatProperties
    <2>5. CASE Feedback(TRUE, Selected(j), j,
                        feeds \o Changed(state, Selected(j), type', j), messages, <<>>)
      BY <1>4, <2>2, <2>5
    <2>6. CASE Feedback(TRUE, state, j, feeds, messages, <<>>)
      BY <1>4, <2>6
    <2>7. CASE \E message : Feedback(FALSE, Released(j), j,
                 feeds \o Changed(state, Released(j), type', j) \o Demand(Released(j)),
                 message, <<>>)
      BY <1>4, <2>4, <2>7
    <2>8. CASE SetState(state, Released(j), feeds, Demand(Released(j)))
      <3>1. Released(j) # "MR_DEPLOY"
        BY <2>1 DEF Far
      <3>2. state' = Released(j) /\ posted' \in Seq(Harmless) /\ status'.state # "MR_DEPLOY"
        BY <1>2, <2>3, <2>8, <3>1, HarmlessSetState
      <3> QED
        BY <1>2, <2>1, <3>2 DEF EarlyStep, EarlyServer
    <2> QED
      BY <1>6, <2>5, <2>6, <2>7, <2>8 DEF Conclude
  <1>7. Len(Order) \in 0 .. Len(Order)
    BY DomainAssumption, LenProperties
  <1> QED
    BY <1>1, <1>2, <1>3, <1>4, <1>5, <1>6, <1>7 DEF ProcessDomains

\* Who is awaited in the rest of a queue, or in one of two parts, is awaited in all of it.
LEMMA AwaitedBack ==
  ASSUME NEW S, NEW events
  PROVE  /\ \A q \in Seq(S) : q # <<>> /\ Awaited(Tail(q), events) => Awaited(q, events)
         /\ \A p, q \in Seq(S) :
              Awaited(p \o q, events) => Awaited(p, events) \/ Awaited(q, events)
  <1>1. ASSUME NEW q \in Seq(S), q # <<>>, Awaited(Tail(q), events)
        PROVE  Awaited(q, events)
    <2>1. PICK i \in DOMAIN Tail(q) : Tail(q)[i].event \in events
      BY <1>1 DEF Awaited
    <2>2. /\ Len(q) \in Nat /\ DOMAIN q = 1 .. Len(q)
          /\ Tail(q) \in Seq(S) /\ Len(Tail(q)) = Len(q) - 1
          /\ DOMAIN Tail(q) = 1 .. Len(q) - 1
      BY <1>1, HeadTailProperties, LenProperties
    <2>3. i + 1 \in DOMAIN q /\ Tail(q)[i] = q[i + 1]
      BY <1>1, <2>1, <2>2, HeadTailProperties
    <2> QED
      BY <2>1, <2>3 DEF Awaited
  <1>2. ASSUME NEW p \in Seq(S), NEW q \in Seq(S), Awaited(p \o q, events)
        PROVE  Awaited(p, events) \/ Awaited(q, events)
    <2>1. PICK i \in DOMAIN (p \o q) : (p \o q)[i].event \in events
      BY <1>2 DEF Awaited
    <2>2. /\ Len(p) \in Nat /\ Len(q) \in Nat
          /\ DOMAIN p = 1 .. Len(p) /\ DOMAIN q = 1 .. Len(q)
          /\ p \o q \in Seq(S) /\ Len(p \o q) = Len(p) + Len(q)
          /\ DOMAIN (p \o q) = 1 .. Len(p) + Len(q)
      BY ConcatProperties, LenProperties
    <2>3. CASE i <= Len(p)
      <3>1. i \in DOMAIN p /\ (p \o q)[i] = p[i]
        BY <2>1, <2>2, <2>3, ConcatProperties
      <3> QED
        BY <2>1, <3>1 DEF Awaited
    <2>4. CASE ~(i <= Len(p))
      <3>1. i - Len(p) \in DOMAIN q /\ (p \o q)[i] = q[i - Len(p)]
        BY <2>1, <2>2, <2>4, ConcatProperties
      <3> QED
        BY <2>1, <3>1 DEF Awaited
    <2> QED
      BY <2>2, <2>3, <2>4
  <1> QED
    BY <1>1, <1>2

\* Files do not get lost.
LEMMA StoredGrows ==
  ASSUME WebQueueStep PROVE stored \subseteq stored'
  <1>1. \A outcome : stored \subseteq Web!StoredAfter(outcome)
    BY DEF Web!StoredAfter
  <1>2. Web!WorkEnds => stored \subseteq stored'
    BY <1>1 DEF Web!WorkEnds
  <1>3. Web!Backend => stored' = stored
    BY DEF Web!Backend, Web!Offer
  <1> QED
    BY <1>2, <1>3
    DEF WebQueueStep, Web!WebNext, Web!StopThread, Web!EndCb, Web!Listen, Web!ReqInit,
        Web!ReqCheck, Web!PollEnds, Web!ReqDownload, Web!ReqVerify, Web!ReqDistribute,
        Web!ReqStop, Web!SetsState, Web!StartThread, Web!Stopped, Web!SeesHandle, Web!CanPull,
        Web!CannotPull, Web!Returns, Web!ReqFeedback, Web!CheckUpgrade

\* The state of the web queue is one of the four.
LEMMA WebStateStep ==
  ASSUME webState \in WebStates, WebQueueStep PROVE webState' \in WebStates
  <1>1. \A event \in DOMAIN Web!StateOf : Web!StateOf[event] \in WebStates
    BY WebRequests DEF Transfers, WebStates
  <1>2. Web!ReqDownload \/ Web!ReqVerify \/ Web!ReqDistribute \/ Web!ReqStop =>
          webState' \in WebStates
    BY <1>1, WebRequests DEF Web!ReqDownload, Web!ReqVerify, Web!ReqDistribute, Web!ReqStop,
          Web!SetsState, Transfers
  <1>3. Web!WorkEnds \/ Web!Backend => webState' = webState
    BY DEF Web!WorkEnds, Web!Backend, Web!Offer, Web!workVars
  <1> QED
    BY <1>2, <1>3
    DEF WebQueueStep, Web!WebNext, Web!StopThread, Web!EndCb, Web!Listen, Web!ReqInit,
        Web!ReqCheck, Web!PollEnds, Web!StartThread, Web!Stopped, Web!SeesHandle, Web!CanPull,
        Web!CannotPull, Web!Returns, Web!ReqFeedback, Web!CheckUpgrade, Web!workVars, WebStates

\* Without files a worker that downloads ends with files, or with an error.
LEMMA EarlyOutcome ==
  ASSUME stored = {}, work \notin {"verify", "distribute"},
         NEW outcome \in Web!Outcomes, Web!StoredAfter(outcome) = {}
  PROVE  outcome = "RES_ERROR"
  BY DEF Web!Outcomes, Web!StoredAfter

\* The web queue, its worker and the backend, as long as no files are complete.
LEMMA EarlyWebStep ==
  ASSUME MInv, EarlyWeb, stored = {}, stored' = {}, WebQueueStep
  PROVE  /\ work' \notin {"verify", "distribute"} /\ webState' \in {"WEB_IDLE", "WEB_DOWNLOAD"}
         /\ blocked' \notin LaterHandler
         /\ ~Awaited(answers', LateEvent)
  <1> DEFINE Early ==
        /\ work' \notin {"verify", "distribute"} /\ webState' \in {"WEB_IDLE", "WEB_DOWNLOAD"}
        /\ blocked' \notin LaterHandler
        /\ ~Awaited(answers', LateEvent)
  <1>1. /\ work \notin {"verify", "distribute"} /\ webState \in {"WEB_IDLE", "WEB_DOWNLOAD"}
        /\ blocked \notin LaterHandler
    BY DEF EarlyWeb
  <1>2. \A e : e.event \notin LateEvent => ~Awaited(<<e>>, LateEvent)
    BY DEF Awaited
  <1>3. ~Awaited(<<>>, LateEvent)
    BY DEF Awaited
  <1>4. ~Awaited(<<Web!Reply("RES_ERROR")>>, LateEvent)
    BY <1>2 DEF Web!Reply, LateEvent
  <1>5. requests # <<>> => Head(requests).event \notin Later
    <2>1. requests # <<>> => 1 \in DOMAIN requests /\ Head(requests) = requests[1]
      BY HeadTailProperties, LenProperties DEF MInv, QueuesOK
    <2> QED
      BY <2>1 DEF EarlyWeb, Awaited
  <1>6. CASE Web!StopThread
    BY <1>1, <1>3, <1>6 DEF Web!StopThread, Web!pollVars
  <1>7. CASE Web!WorkEnds
    <2>1. PICK outcome \in Web!Outcomes :
            /\ work' = "ending" /\ stored' = Web!StoredAfter(outcome)
            /\ answers' = << Web!Reply(outcome) >>
            /\ UNCHANGED <<webState, blocked>>
      BY <1>7 DEF Web!WorkEnds, Web!pollVars
    <2>2. outcome = "RES_ERROR"
      BY <1>1, <2>1, EarlyOutcome
    <2> QED
      BY <1>1, <1>4, <2>1, <2>2
  <1>8. CASE Web!EndCb
    BY <1>1, <1>3, <1>8 DEF Web!EndCb, Web!pollVars
  <1>9. CASE Web!ReqInit \/ Web!ReqCheck \/ Web!CheckUpgrade
    <2>1. /\ UNCHANGED <<work, webState>> /\ (blocked' = blocked \/ blocked' = "poll")
          /\ answers' = <<>> \/ answers' = << Web!Reply("RES_INIT") >>
      BY <1>9 DEF Web!ReqInit, Web!ReqCheck, Web!CheckUpgrade, Web!Poll, Web!workVars,
                  Web!pollVars
    <2>2. ~Awaited(<<Web!Reply("RES_INIT")>>, LateEvent)
      BY <1>2 DEF Web!Reply, LateEvent
    <2> QED
      BY <1>1, <1>3, <2>1, <2>2 DEF LaterHandler, Later
  <1>10. CASE Web!PollEnds(job.upgrade, job.cancelId)
    <2>1. /\ UNCHANGED <<work, webState>> /\ blocked' = "no"
          /\ \/ answers' = <<>>
             \/ answers' = << Web!Reply("REQ_IDLE") >>
             \/ answers' = << [event |-> "REQ_CANCEL", id |-> seen.upgrade.id] >>
             \/ answers' = << [event |-> "REQ_UPGRADE", upgrade |-> seen.upgrade] >>
      BY <1>10 DEF Web!PollEnds, Web!workVars
    <2>2. /\ ~Awaited(<< Web!Reply("REQ_IDLE") >>, LateEvent)
          /\ ~Awaited(<< [event |-> "REQ_CANCEL", id |-> seen.upgrade.id] >>, LateEvent)
          /\ ~Awaited(<< [event |-> "REQ_UPGRADE", upgrade |-> seen.upgrade] >>, LateEvent)
      BY <1>2 DEF Web!Reply, LateEvent
    <2> QED
      BY <1>1, <1>3, <2>1, <2>2 DEF LaterHandler, Later
  <1>11. CASE Web!ReqDownload \/ Web!ReqStop
    <2>1. PICK event \in {"REQ_DOWNLOAD", "REQ_STOP"} : Web!SetsState(event)
      BY <1>11 DEF Web!ReqDownload, Web!ReqStop
    <2>2. webState' \in {"WEB_IDLE", "WEB_DOWNLOAD"}
      BY <2>1, WebRequests DEF Web!SetsState
    <2> QED
      BY <1>1, <1>3, <2>1, <2>2 DEF Web!SetsState, LaterHandler, Later
  <1>12. ~(\/ Web!Listen \/ Web!ReqVerify \/ Web!ReqDistribute \/ Web!SeesHandle
           \/ Web!CanPull \/ Web!CannotPull)
    BY <1>1, <1>5 DEF Web!Listen, Web!ReqVerify, Web!ReqDistribute, Web!SetsState, Web!Takes,
          Web!SeesHandle, Web!CanPull, Web!CannotPull, LaterHandler, Later
  <1>13. CASE Web!StartThread(job.upgrade)
    <2>1. blocked = "REQ_DOWNLOAD"
      BY <1>1, <1>13, WebRequests DEF Web!StartThread, LaterHandler, Later, Transfers
    <2> QED
      BY <1>1, <1>3, <1>13, <2>1, WebRequests DEF Web!StartThread, LaterHandler, Later
  <1>14. CASE Web!Stopped
    BY <1>1, <1>3, <1>14 DEF Web!Stopped, Web!Returns, Web!workVars, LaterHandler, Later
  <1>15. CASE Web!ReqFeedback
    <2>1. /\ UNCHANGED <<work, webState, blocked>>
          /\ answers' = <<>> \/ answers' = << Web!Reply("RES_ERROR") >>
      BY <1>15 DEF Web!ReqFeedback, Web!workVars, Web!pollVars
    <2> QED
      BY <1>1, <1>3, <1>4, <2>1
  <1>16. CASE Web!Backend
    BY <1>1, <1>3, <1>16 DEF Web!Backend, Web!Offer, Web!workVars, Web!pollVars
  <1> QED
    BY <1>6, <1>7, <1>8, <1>9, <1>10, <1>11, <1>12, <1>13, <1>14, <1>15, <1>16
    DEF WebQueueStep, Web!WebNext

-----------------------------------------------------------------------------
(* What is shown. *)

LEMMA UnitType == /\ Unit \in Nat
                  /\ \A n \in Nat : Percent(n) = n * Unit /\ Percent(n) \in Nat
  <1>1. Size \in Nat /\ Cardinality(Domain) \in Nat
    BY ProgressAssumption, DomainAssumption, FS_CardinalityType
  <1>2. Unit \in Nat
    BY <1>1 DEF Unit
  <1> QED
    BY <1>2 DEF Percent

\* configState: the bar keeps its place, or takes that of the state.
LEMMA ConfigEffect ==
  ASSUME NEW s, NEW p, state' \in ServerState, ConfigState(s, p)
  PROVE  /\ \/ progress' = p /\ (state' = state \/ state' \in Keeps)
            \/ /\ state' \notin Keeps
               /\ progress' > Percent(50) => state' = "MR_DONE_ASK"
               /\ progress' > Percent(30) => state' \in Far \cup {"MR_DONE_ASK"}
  <1>1. CASE state' = state \/ state' \in Keeps
    BY <1>1 DEF ConfigState
  <1>2. CASE ~(state' = state \/ state' \in Keeps)
    <2>1. progress' = Percent(StateShown(state', lastState')[2])
      BY <1>2 DEF ConfigState
    <2>2. \/ state' = "MR_DONE_ASK"
          \/ StateShown(state', lastState')[2] \in {0, 10, 30}
          \/ state' \in Far /\ StateShown(state', lastState')[2] = 50
      BY <1>2 DEF StateShown, ServerState, Keeps, Far
    <2>3. /\ Unit \in Nat
          /\ \A n \in {0, 10, 30, 50} : Percent(n) = n * Unit
      BY UnitType
    <2> QED
      BY <1>2, <2>1, <2>2, <2>3
  <1> QED
    BY <1>1, <1>2

\* RES_TRANSFER_PROGRESS: a report does not take the bar out of the part of a phase.
LEMMA TransferShown ==
  ASSUME IInv, webState \in WebStates, NEW done \in [Domain -> 0 .. Size],
         ResTransferProgress(done)
  PROVE  \/ progress' = progress
         \/ /\ ~(progress' > Percent(50))
            /\ webState = "WEB_DOWNLOAD" => ~(progress' > Percent(30))
  <1> DEFINE current == Sum(done, Counted)
             total == Size * Cardinality(Counted)
  <1>1. Size \in Nat \ {0} /\ Counted \in SUBSET Domain
    BY ProgressAssumption DEF IInv, TypeOK, Job, Counted
  <1>2. IsFiniteSet(Counted) /\ Cardinality(Counted) \in Nat
    BY <1>1, DomainAssumption, FS_Subset, FS_CardinalityType
  <1>3. current \in 0 .. total
    BY <1>1, <1>2, SumBound
  <1>4. total \in Nat /\ current \in Nat /\ current <= total
    BY <1>1, <1>2, <1>3
  <1>5. \/ progress' = progress
        \/ /\ webState # "WEB_IDLE" /\ total # 0
           /\ progress' = Percent(Base[webState]) + (Percent(Share[webState]) * current) \div total
    BY DEF ResTransferProgress, shownVars
  <1> HIDE DEF current, total
  <1>6. CASE /\ webState # "WEB_IDLE" /\ total # 0
             /\ progress' = Percent(Base[webState]) + (Percent(Share[webState]) * current) \div total
    <2> DEFINE share == (Percent(Share[webState]) * current) \div total
    <2>1. <<Base[webState], Share[webState]>> \in {<<10, 20>>, <<30, 5>>, <<35, 15>>}
      BY <1>6 DEF WebStates, Base, Share
    <2>2. webState = "WEB_DOWNLOAD" => Base[webState] = 10 /\ Share[webState] = 20
      BY DEF Base, Share
    <2>3. /\ Unit \in Nat
          /\ \A n \in {5, 10, 15, 20, 30, 35, 50} : Percent(n) = n * Unit /\ Percent(n) \in Nat
      BY UnitType
    <2>4. Percent(Share[webState]) \in Nat
      BY <2>1, <2>3
    <2>5. share \in 0 .. Percent(Share[webState])
      BY <1>4, <1>6, <2>4, ShareBound
    <2>6. progress' = Percent(Base[webState]) + share
      BY <1>6
    <2> HIDE DEF share
    <2> QED
      BY <2>1, <2>2, <2>3, <2>5, <2>6
  <1> QED
    BY <1>5, <1>6

-----------------------------------------------------------------------------
(* Every step keeps the bar where it belongs. *)

\* A step of the server, which showed p before it set its state.
LEMMA ServerBar ==
  ASSUME AInv, IInv', NEW s, NEW p, ConfigState(s, p), p = progress \/ state = "MR_DEPLOY",
         stored' = stored,
         stored = {} => EarlyStep \/ UNCHANGED <<state, status, cacheState, hasDeployBreaked>>
  PROVE  Over' /\ (stored' = {} => EarlyServer' /\ EarlyBar')
  <1>1. /\ \/ progress' = p /\ (state' = state \/ state' \in Keeps)
           \/ /\ state' \notin Keeps
              /\ progress' > Percent(50) => state' = "MR_DONE_ASK"
              /\ progress' > Percent(30) => state' \in Far \cup {"MR_DONE_ASK"}
        /\ Percent(50)' = Percent(50) /\ Percent(30)' = Percent(30)
    BY ConfigEffect DEF IInv, TypeOK, Percent, Unit
  <1>2. Over'
    BY <1>1 DEF AInv, Over
  <1>3. ASSUME stored = {} PROVE EarlyServer' /\ EarlyBar'
    <2>1. EarlyServer /\ EarlyBar /\ state # "MR_DEPLOY" /\ p = progress
      BY <1>3 DEF AInv, EarlyInv, EarlyServer, Far
    <2>2. EarlyServer' /\ (state = "MR_DONE_ASK" => state' = state \/ state' \notin Keeps)
      BY <1>3, <2>1 DEF EarlyStep, EarlyServer
    <2>3. EarlyBar'
      BY <1>1, <2>1, <2>2 DEF EarlyBar, EarlyServer
    <2> QED
      BY <2>2, <2>3
  <1> QED
    BY <1>2, <1>3

\* What an early server posts asks the web queue for nothing that needs files.
LEMMA EarlyPosting ==
  ASSUME MInv, EarlyWeb, Posting, posted' \in Seq(Harmless), posted' \in Seq(AnyRequest),
         inbox' = inbox \/ (inbox # <<>> /\ inbox' = Tail(inbox))
  PROVE  EarlyWeb'
  <1>1. /\ requests' = requests \o posted'
        /\ UNCHANGED <<work, webState, blocked>>
    BY DEF Posting, workerVars
  <1>2. requests \in Seq(AnyRequest) /\ inbox \in Seq(AnyEvent)
    BY DEF MInv, QueuesOK
  <1>3. ~Awaited(posted', Later) /\ ~Awaited(requests, Later) /\ ~Awaited(inbox, LateEvent)
    BY HarmlessQuiet DEF EarlyWeb
  <1>4. ~Awaited(requests', Later)
    BY <1>1, <1>2, <1>3, AwaitedBack
  <1>5. ~Awaited(inbox', LateEvent)
    BY <1>2, <1>3, AwaitedBack
  <1> QED
    BY <1>1, <1>4, <1>5 DEF EarlyWeb

\* An event of the web queue, for the server.
LEMMA OtherAInv ==
  ASSUME AInv, OtherEvent
  PROVE  AInv'
  <1>1. /\ MInv' /\ IInv' /\ MInv /\ IInv
        /\ Next => posted' \in Seq(AnyRequest)
    BY OtherMInv, StepServer DEF AInv, ProgressNext, MInv
  <1>2. /\ inbox # <<>> /\ inbox' = Tail(inbox)
        /\ ConfigState(step, progress)
        /\ (Handled(Head(inbox)) /\ Posting) \/ Ignored(Head(inbox))
    BY DEF OtherEvent, WebEvent
  <1>3. /\ stored' = stored /\ webState' = webState
    BY <1>2 DEF Posting, Ignored, workerVars, webVars
  <1>4. CASE Ignored(Head(inbox))
    <2>1. /\ UNCHANGED <<state, status, cacheState, hasDeployBreaked>>
          /\ UNCHANGED <<requests, work, webState, blocked>>
      BY <1>4 DEF Ignored, vars, requestVars, bootVars, webVars, workerVars
    <2>2. Over' /\ (stored' = {} => EarlyServer' /\ EarlyBar')
      BY <1>1, <1>2, <1>3, <2>1, ServerBar
    <2>3. ASSUME stored = {} PROVE EarlyWeb'
      <3>1. EarlyWeb /\ inbox \in Seq(AnyEvent)
        BY <1>1, <2>3 DEF AInv, EarlyInv, MInv, QueuesOK
      <3>2. ~Awaited(inbox', LateEvent)
        BY <1>2, <3>1, AwaitedBack DEF EarlyWeb
      <3> QED
        BY <2>1, <3>1, <3>2 DEF EarlyWeb
    <2> QED
      BY <1>1, <1>3, <2>2, <2>3 DEF AInv, EarlyInv, WebStates
  <1>5. CASE Handled(Head(inbox)) /\ Posting
    <2> DEFINE e == Head(inbox)
    <2>1. posted' \in Seq(AnyRequest)
      BY <1>1, <1>2, <1>5, HandledIsStep DEF MInv, Next
    <2>2. e \in AnyEvent /\ 1 \in DOMAIN inbox /\ e = inbox[1]
      BY <1>1, <1>2, HeadTailProperties, LenProperties DEF MInv, QueuesOK
    <2>3. /\ e.event = "REQ_UPGRADE" => e.upgrade \in Upgrades
          /\ e.event = "REQ_CANCEL" => e.id \in Id
      BY <2>2 DEF AnyEvent, Outcome
    <2>4. ASSUME stored = {} PROVE EarlyStep /\ EarlyWeb'
      <3>1. EarlyServer /\ EarlyWeb
        BY <2>4 DEF AInv, EarlyInv
      <3>2. e.event \notin LateEvent
        BY <2>2, <3>1 DEF EarlyWeb, Awaited
      <3> HIDE DEF e
      <3>3. \/ ResInit \/ ResError \/ ReqIdle
            \/ \E u \in Upgrades : ReqUpgrade(u)
            \/ \E id \in Id : ReqCancel(id)
        BY <1>5, <2>3, <3>2 DEF Handled, LateEvent, e
      <3>4. EarlyStep
        BY <1>1, <3>1, <3>3, EarlyEvent
      <3>5. EarlyWeb'
        BY <1>1, <1>2, <1>5, <2>1, <3>1, <3>4, EarlyPosting DEF EarlyStep
      <3> QED
        BY <3>4, <3>5
    <2>5. Over' /\ (stored' = {} => EarlyServer' /\ EarlyBar')
      BY <1>1, <1>2, <1>3, <2>4, ServerBar
    <2> QED
      BY <1>1, <1>3, <2>4, <2>5 DEF AInv, EarlyInv, WebStates
  <1> QED
    BY <1>2, <1>4, <1>5

\* A report of a domain, or the timer.
LEMMA ServerAloneAInv ==
  ASSUME AInv, DomainReports \/ Tick
  PROVE  AInv'
  <1>1. /\ MInv' /\ IInv' /\ MInv /\ IInv
        /\ Next => posted' \in Seq(AnyRequest)
    BY ServerAloneMInv, StepServer DEF AInv, ProgressNext, MInv
  <1>2. DomainStep \/ TimerStep
    BY <1>1, ReportIsStep DEF Tick, MInv
  <1>3. posted' \in Seq(AnyRequest)
    BY <1>1, <1>2 DEF Next
  <1>4. Posting /\ inbox' = inbox /\ stored' = stored /\ webState' = webState
    BY DEF DomainReports, Tick, Posting, workerVars
  <1>5. PICK s, p : ConfigState(s, p) /\ (p = progress \/ state = "MR_DEPLOY")
    <2>1. CASE Tick
      BY <2>1 DEF Tick
    <2>2. CASE DomainReports
      <3>1. PICK d \in Domain, r \in plan.reports : \E p \in MaySay(r) :
              ConfigState(DomainShown(d, r, p)[1], DomainShown(d, r, p)[2])
        BY <2>2 DEF DomainReports
      <3>2. PICK q \in MaySay(r) : ConfigState(DomainShown(d, r, q)[1], DomainShown(d, r, q)[2])
        BY <3>1
      <3>3. DomainShown(d, r, q)[2] = progress \/ state = "MR_DEPLOY"
        BY DEF DomainShown, shownVars
      <3> QED
        BY <3>2, <3>3
    <2> QED
      BY <2>1, <2>2
  <1>6. ASSUME stored = {} PROVE EarlyStep /\ EarlyWeb'
    <2>1. EarlyServer /\ EarlyWeb
      BY <1>6 DEF AInv, EarlyInv
    <2>2. EarlyStep
      BY <1>1, <1>2, <2>1, EarlyReport, EarlyTimer
    <2>3. EarlyWeb'
      BY <1>1, <1>3, <1>4, <2>1, <2>2, EarlyPosting DEF EarlyStep
    <2> QED
      BY <2>2, <2>3
  <1>7. Over' /\ (stored' = {} => EarlyServer' /\ EarlyBar')
    BY <1>1, <1>4, <1>5, <1>6, ServerBar
  <1> QED
    BY <1>1, <1>4, <1>6, <1>7 DEF AInv, EarlyInv, WebStates

\* A report on transfers is taken, or added by the worker.
LEMMA TransferAInv ==
  ASSUME AInv, TransferEvent \/ Move
  PROVE  AInv'
  <1>1. MInv' /\ MInv /\ IInv
    BY TransferMInv DEF AInv, MInv
  <1>2. /\ UNCHANGED <<state, status, cacheState, hasDeployBreaked, stored>>
        /\ UNCHANGED <<requests, work, webState, blocked>>
        /\ Percent(50)' = Percent(50) /\ Percent(30)' = Percent(30)
    BY DEF TransferEvent, Move, vars, requestVars, bootVars, webVars, workerVars, Percent, Unit
  <1>3. inbox \in Seq(AnyEvent)
    BY <1>1 DEF MInv, QueuesOK
  <1>4. CASE TransferEvent
    <2>1. /\ inbox # <<>> /\ Head(inbox).event = "RES_TRANSFER_PROGRESS"
          /\ inbox' = Tail(inbox) /\ ResTransferProgress(Head(inbox).moved)
      BY <1>4 DEF TransferEvent, AtTransfer
    <2>2. Head(inbox).moved \in [Domain -> 0 .. Size]
      <3>1. Head(inbox) \in AnyEvent
        BY <1>3, <2>1, HeadTailProperties
      <3> QED
        BY <2>1, <3>1 DEF AnyEvent, Outcome
    <2>3. \/ progress' = progress
          \/ /\ ~(progress' > Percent(50))
             /\ webState = "WEB_DOWNLOAD" => ~(progress' > Percent(30))
      BY <1>1, <2>1, <2>2, TransferShown DEF AInv
    <2>4. webState = "WEB_IDLE" => progress' = progress
      BY <2>1 DEF ResTransferProgress, shownVars
    <2>5. Over'
      BY <1>2, <2>3 DEF AInv, Over
    <2>6. ASSUME stored = {} PROVE EarlyServer' /\ EarlyWeb' /\ EarlyBar'
      <3>1. EarlyServer /\ EarlyWeb /\ EarlyBar
        BY <2>6 DEF AInv, EarlyInv
      <3>2. ~Awaited(inbox', LateEvent)
        BY <1>3, <2>1, <3>1, AwaitedBack DEF EarlyWeb
      <3>3. EarlyServer' /\ EarlyWeb'
        BY <1>2, <3>1, <3>2 DEF EarlyServer, EarlyWeb
      <3>4. EarlyBar'
        BY <1>2, <2>3, <2>4, <3>1 DEF EarlyBar, EarlyWeb
      <3> QED
        BY <3>3, <3>4
    <2> QED
      BY <1>1, <1>2, <2>5, <2>6 DEF AInv, EarlyInv, WebStates
  <1>5. CASE Move
    <2> DEFINE e == [event |-> "RES_TRANSFER_PROGRESS", moved |-> moved']
    <2>1. inbox' = Append(inbox, e) /\ progress' = progress
      BY <1>5 DEF Move, shownVars
    <2>2. e.event \notin LateEvent
      BY DEF LateEvent
    <2> HIDE DEF e
    <2>3. ~Awaited(inbox, LateEvent) => ~Awaited(inbox', LateEvent)
      <3> SUFFICES ASSUME Awaited(inbox', LateEvent) PROVE Awaited(inbox, LateEvent)
        OBVIOUS
      <3>1. PICK i \in DOMAIN inbox' : inbox'[i].event \in LateEvent
        BY DEF Awaited
      <3>2. /\ Len(inbox) \in Nat /\ DOMAIN inbox = 1 .. Len(inbox)
            /\ DOMAIN inbox' = 1 .. Len(inbox) + 1
            /\ \A k \in DOMAIN inbox : inbox'[k] = inbox[k]
            /\ inbox'[Len(inbox) + 1] = e
        BY <1>3, <2>1, AppendProperties, LenProperties
      <3>3. i \in DOMAIN inbox
        BY <2>2, <3>1, <3>2
      <3> QED
        BY <3>1, <3>2, <3>3 DEF Awaited
    <2>4. Over'
      BY <1>2, <2>1 DEF AInv, Over
    <2>5. EarlyInv'
      BY <1>2, <2>1, <2>3 DEF AInv, EarlyInv, EarlyServer, EarlyWeb, EarlyBar
    <2> QED
      BY <1>1, <1>2, <2>4, <2>5 DEF AInv, WebStates
  <1> QED
    BY <1>4, <1>5

\* A step of the web queue, its worker or the backend.
LEMMA WebAInv ==
  ASSUME AInv, WebEvents
  PROVE  AInv'
  <1>1. MInv' /\ MInv
    BY WebMInv DEF AInv
  <1>2. /\ WebQueueStep /\ inbox' = inbox \o answers'
        /\ UNCHANGED <<state, status, cacheState, hasDeployBreaked, progress>>
        /\ Percent(50)' = Percent(50) /\ Percent(30)' = Percent(30)
    BY DEF WebEvents, WebQueueStep, vars, requestVars, bootVars, shownVars, Percent, Unit
  <1>3. WebEffect
    BY <1>1, <1>2, WebQueueEffect
  <1>4. webState' \in WebStates
    BY <1>2, WebStateStep DEF AInv
  <1>5. Over'
    BY <1>2 DEF AInv, Over
  <1>6. ASSUME stored' = {} PROVE EarlyServer' /\ EarlyWeb' /\ EarlyBar'
    <2>1. stored = {}
      BY <1>2, <1>6, StoredGrows
    <2>2. EarlyServer /\ EarlyWeb /\ EarlyBar
      BY <2>1 DEF AInv, EarlyInv
    <2>3. /\ work' \notin {"verify", "distribute"} /\ webState' \in {"WEB_IDLE", "WEB_DOWNLOAD"}
          /\ blocked' \notin LaterHandler
          /\ ~Awaited(answers', LateEvent)
      BY <1>1, <1>2, <1>6, <2>1, <2>2, EarlyWebStep
    <2>4. inbox \in Seq(AnyEvent) /\ requests \in Seq(AnyRequest)
      BY <1>1 DEF MInv, QueuesOK
    <2>5. answers' \in Seq(AnyEvent)
      <3>1. \/ answers' = <<>>
            \/ \E e \in AnyEvent : answers' = <<e>>
        BY <1>3 DEF WebEffect
      <3>2. \A e \in AnyEvent : <<e>> \in Seq(AnyEvent)
        OBVIOUS
      <3>3. <<>> \in Seq(AnyEvent)
        OBVIOUS
      <3> QED
        BY <3>1, <3>2, <3>3
    <2>6. ~Awaited(inbox', LateEvent)
      BY <1>2, <2>2, <2>3, <2>4, <2>5, AwaitedBack DEF EarlyWeb
    <2>7. ~Awaited(requests', Later)
      BY <1>3, <2>2, <2>4, AwaitedBack DEF WebEffect, EarlyWeb
    <2>8. EarlyServer' /\ EarlyBar'
      BY <1>2, <2>2 DEF EarlyServer, EarlyBar
    <2> QED
      BY <2>3, <2>6, <2>7, <2>8 DEF EarlyWeb
  <1> QED
    BY <1>1, <1>4, <1>5, <1>6 DEF AInv, EarlyInv, WebStates

\* The first state, and one after a restart: nothing is shown, asked or known.
LEMMA EarlyStart ==
  /\ ProgressInit => EarlyInv /\ Over /\ webState \in WebStates
  /\ AInv /\ ProgressRestart => EarlyInv' /\ Over' /\ webState' \in WebStates
  <1>1. /\ Unit \in Nat /\ Percent(30) \in Nat /\ Percent(50) \in Nat
        /\ Percent(30)' = Percent(30) /\ Percent(50)' = Percent(50)
    BY UnitType DEF Percent, Unit
  <1>2. "MR_OFFLINE" \notin Far /\ "REQ_INIT" \notin Later /\ "WEB_IDLE" \in WebStates
    BY DEF Far, Later, WebStates
  <1>3. ~Awaited(<<>>, LateEvent) /\ ~Awaited(<< Request("REQ_INIT") >>, Later)
    BY DEF Awaited, Request, Later
  <1>4. ASSUME ProgressInit PROVE EarlyInv /\ Over /\ webState \in WebStates
    <2>1. /\ state = "MR_OFFLINE" /\ status = NoStatus /\ cacheState = "MR_UNKNOWN"
          /\ ~hasDeployBreaked /\ progress = 0
          /\ requests = << Request("REQ_INIT") >> /\ inbox = <<>>
          /\ work = "none" /\ webState = "WEB_IDLE" /\ blocked = "no"
      BY <1>4 DEF ProgressInit, MasterInit, Init, Web!WebInit, Web!Request, Request
    <2> QED
      BY <1>1, <1>2, <1>3, <2>1
      DEF EarlyInv, EarlyServer, EarlyWeb, EarlyBar, Over, LaterHandler, Later, NoStatus
  <1>5. ASSUME AInv, ProgressRestart PROVE EarlyInv' /\ Over' /\ webState' \in WebStates
    <2>1. /\ state' = "MR_OFFLINE" /\ status' = status /\ cacheState' = "MR_UNKNOWN"
          /\ ~hasDeployBreaked' /\ progress' = 0 /\ stored' = stored
          /\ requests' = << Request("REQ_INIT") >> /\ inbox' = <<>>
          /\ work' = "none" /\ webState' = "WEB_IDLE" /\ blocked' = "no"
      BY <1>5 DEF ProgressRestart, MasterRestart, Restart
    <2>2. stored = {} => status.state # "MR_DEPLOY"
      BY <1>5 DEF AInv, EarlyInv, EarlyServer
    <2> QED
      BY <1>1, <1>2, <1>3, <2>1, <2>2 DEF EarlyInv, EarlyServer, EarlyWeb, EarlyBar, Over, LaterHandler, Later
  <1> QED
    BY <1>4, <1>5

LEMMA StepAInv == AInv /\ [ProgressNext]_progressVars => AInv'
  <1> SUFFICES ASSUME AInv, [ProgressNext]_progressVars PROVE AInv'
    OBVIOUS
  <1>1. MInv'
    BY StepMInv DEF AInv
  <1>2. CASE UNCHANGED progressVars
    <2>1. /\ UNCHANGED <<state, status, cacheState, hasDeployBreaked, stored, progress>>
          /\ UNCHANGED <<requests, inbox, work, webState, blocked>>
          /\ Percent(50)' = Percent(50) /\ Percent(30)' = Percent(30)
      BY <1>2 DEF progressVars, masterVars, shownVars, vars, requestVars, bootVars, webVars,
                  workerVars, Percent, Unit
    <2> QED
      BY <1>1, <2>1 DEF AInv, EarlyInv, EarlyServer, EarlyWeb, EarlyBar, Over, WebStates
  <1>3. CASE ProgressRestart
    BY <1>1, <1>3, EarlyStart DEF AInv
  <1> QED
    BY <1>2, <1>3, OtherAInv, ServerAloneAInv, TransferAInv, WebAInv DEF ProgressNext

-----------------------------------------------------------------------------
(* The theorems. *)

THEOREM MasterInvariance == ProgressSpec => []MInv
  BY InitMInv, StepMInv, PTL DEF ProgressSpec

\* The server of the master, beside its web queue, does what OtaServer says of a
\* server that may get any event: RES_INIT is the first event and comes once
\* (REQ_INIT, checkUpgrade).
THEOREM ServerImplemented == ProgressSpec => ServerSpec
  <1>1. ProgressInit => Init
    BY DEF ProgressInit, MasterInit
  <1>2. MInv /\ [ProgressNext]_progressVars => [Next]_vars
    BY StepImplements
  <1> QED
    BY <1>1, <1>2, MasterInvariance, PTL DEF ProgressSpec, ServerSpec, Spec

\* So it keeps every invariant of OtaServer, and tells the backend no false success.
THEOREM MasterIsServer == ProgressSpec => []IInv /\ SuccessIsTrue
  BY ServerImplemented, Invariance, SuccessesTrue, PTL DEF ServerSpec

\* A server in a phase of a transfer whose request is not answered will be told of
\* the transfer: a worker, a request for one or an event of one is there, unless a
\* stop for an earlier request came late, or REQ_PULL did (eventChanged of both queues, feedback).
THEOREM TransfersUnderway == ProgressSpec => []TransferUnderway
  <1>1. MInv => TransferUnderway
    BY DEF MInv, WaitsForSomething, Waiting, Carried, TransferUnderway, Underway, Busy,
           Outcome
  <1> QED
    BY <1>1, MasterInvariance, PTL

\* Until the result is shown, the bar passes the download only when the files of an
\* upgrade are complete, and enters the deployment only in it (or keeps its place after
\* it): no late report, stop, failure, cancellation or restart takes it ahead of the
\* files (configState, RES_TRANSFER_PROGRESS).
THEOREM BarNotAhead == ProgressSpec => []NotAhead
  <1>1. ProgressInit => AInv
    BY InitMInv, EarlyStart DEF AInv
  <1>2. AInv => NotAhead
    BY DEF AInv, EarlyInv, EarlyBar, Over, NotAhead
  <1> QED
    BY <1>1, <1>2, StepAInv, PTL DEF ProgressSpec
=============================================================================
