------------------------- MODULE OtaWebQueueProofs --------------------------
(***************************************************************************)
(* Proofs about OtaWebQueue, for every set of upgrades, whatever the       *)
(* server asks for and the backend wants.  That the state of the queue is  *)
(* that of its worker is not inductive: while a handler waits for the      *)
(* worker at hand, what it has set may only be reset, so that the worker   *)
(* it starts at last is the one that the state names.                      *)
(***************************************************************************)
EXTENDS OtaWebQueue, TLAPS, SequenceTheorems

\* While a handler waits for the worker at hand, the state is the one it has set, or
\* the callback of that worker has reset it.
HandlerSets ==
  blocked \in DOMAIN StateOf => webState \in {StateOf[blocked], "WEB_IDLE"}

\* The type invariant and the state of the worker.
IInv == TypeOK /\ StateIsWorked /\ HandlerSets

\* The requests that stop the worker, one by one.
LEMMA Requests ==
  /\ DOMAIN StateOf = {"REQ_DOWNLOAD", "REQ_VERIFY", "REQ_DISTRIBUTE", "REQ_STOP"}
  /\ DOMAIN WorkOf = {"REQ_DOWNLOAD", "REQ_VERIFY", "REQ_DISTRIBUTE"}
  /\ StateOf["REQ_DOWNLOAD"] = "WEB_DOWNLOAD" /\ WorkOf["REQ_DOWNLOAD"] = "download"
  /\ StateOf["REQ_VERIFY"] = "WEB_VERIFY" /\ WorkOf["REQ_VERIFY"] = "verify"
  /\ StateOf["REQ_DISTRIBUTE"] = "WEB_DISTRIBUTE"
  /\ WorkOf["REQ_DISTRIBUTE"] = "distribute"
  /\ StateOf["REQ_STOP"] = "WEB_IDLE"
  BY DEF StateOf, WorkOf

\* What the server and the backend may ask: the parameters of a step.
AnyUpgrade == Upgrades \cup {NoUpgrade}

\* An upgrade, or none, has an id, or none.
LEMMA UpgradeIds ==
  ASSUME NEW u \in AnyUpgrade PROVE u.id \in Id \cup {NoId}
  BY WebAssumption DEF AnyUpgrade

\* The queue of requests keeps its type, when a handler takes the first one and when
\* one is added.
LEMMA RequestsType ==
  ASSUME requests \in Seq(MayRequest)
  PROVE  /\ requests # <<>> => Tail(requests) \in Seq(MayRequest)
                               /\ Head(requests) \in MayRequest
         /\ \A e \in MayRequest : Append(requests, e) \in Seq(MayRequest)
  BY HeadTailProperties, AppendProperties

LEMMA TakesType ==
  ASSUME TypeOK, NEW event, Takes(event)
  PROVE  requests' \in Seq(MayRequest) /\ blocked = "no"
  BY RequestsType DEF Takes, TypeOK

LEMMA InitIInv == WebInit => IInv
  <1> SUFFICES ASSUME WebInit PROVE IInv
    OBVIOUS
  <1>1. requests \in Seq(MayRequest)
    BY DEF WebInit, MayRequest, Request
  <1>2. {seen, backend} \subseteq Wanted
    BY DEF WebInit, Nothing, Wanted
  <1>3. offers \in 0 .. MaxOffers
    BY WebAssumption DEF WebInit
  <1> QED
    BY <1>1, <1>2, <1>3, Requests DEF WebInit, IInv, TypeOK, StateIsWorked, HandlerSets,
          WebState, Work
-----------------------------------------------------------------------------
(* The actions. *)

\* What the worker leaves is an upgrade of the backend's, or nothing new.
LEMMA StoredType ==
  ASSUME TypeOK, NEW outcome \in Outcomes
  PROVE  StoredAfter(outcome) \subseteq Id
  BY DEF TypeOK, StoredAfter, Outcomes, Work

\* A handler that sets the state is the one that the state waits for.
LEMMA SetsIInv ==
  ASSUME IInv, NEW event \in DOMAIN StateOf, SetsState(event) PROVE IInv'
  <1>1. requests' \in Seq(MayRequest)
    BY TakesType DEF SetsState, IInv
  <1>2. webState' = StateOf[event] /\ blocked' = event
    BY DEF SetsState
  <1>3. webState' \in WebState
    BY <1>2, Requests DEF WebState
  <1>4. StateIsWorked'
    BY <1>2, Requests DEF StateIsWorked
  <1>5. HandlerSets'
    BY <1>2 DEF HandlerSets
  <1>6. seen' = Nothing
    BY DEF SetsState, Takes, IInv, TypeOK
  <1>7. TypeOK'
    BY <1>1, <1>2, <1>3, <1>6, Requests DEF SetsState, IInv, TypeOK, backendVars
  <1> QED
    BY <1>4, <1>5, <1>7 DEF IInv

\* The worker that a handler starts is the one that the state names.
LEMMA StartIInv ==
  ASSUME IInv, NEW upgrade \in AnyUpgrade, StartThread(upgrade) PROVE IInv'
  <1>1. /\ blocked \in DOMAIN WorkOf /\ work = "none" /\ work' = WorkOf[blocked]
        /\ workId' \in Id \cup {NoId}
        /\ blocked' \in {"no", "listen"} /\ webState' = webState
    BY UpgradeIds DEF StartThread
  <1>2. webState \in {StateOf[blocked], "WEB_IDLE"}
    BY <1>1, Requests DEF IInv, HandlerSets
  <1>3. StateIsWorked'
    BY <1>1, <1>2, Requests DEF StateIsWorked
  <1>4. HandlerSets'
    BY <1>1, Requests DEF HandlerSets
  <1>5. handle' = FALSE /\ seen' = Nothing
    BY <1>1, Requests DEF StartThread, IInv, TypeOK
  <1>6. TypeOK'
    BY <1>1, <1>5, Requests DEF StartThread, IInv, TypeOK, Work, backendVars
  <1> QED
    BY <1>3, <1>4, <1>6 DEF IInv

\* Every step of the queue, of its worker or of the backend keeps both.
LEMMA WorkerIInv ==
  ASSUME IInv, WorkEnds \/ StopThread \/ EndCb \/ Listen PROVE IInv'
  <1>1. CASE WorkEnds
    <2>1. PICK outcome \in Outcomes :
            /\ work' = "ending" /\ handle' = FALSE
            /\ stored' = StoredAfter(outcome)
            /\ UNCHANGED <<requests, webState, hasInited, workId, pollVars, backendVars>>
      BY <1>1 DEF WorkEnds
    <2>2. stored' \subseteq Id
      BY <2>1, StoredType DEF IInv
    <2> QED
      BY <2>1, <2>2, Requests DEF IInv, TypeOK, StateIsWorked, HandlerSets, pollVars,
          backendVars, Work
  <1>2. CASE EndCb
    BY <1>2, Requests DEF EndCb, IInv, TypeOK, StateIsWorked, HandlerSets, pollVars,
          backendVars, Work, WebState
  <1>3. CASE StopThread
    BY <1>3, Requests DEF StopThread, IInv, TypeOK, StateIsWorked, HandlerSets, pollVars,
          backendVars, Work
  <1>4. CASE Listen
    BY <1>4, Requests DEF Listen, IInv, TypeOK, StateIsWorked, HandlerSets, pollVars,
          backendVars
  <1> QED
    BY <1>1, <1>2, <1>3, <1>4

\* A poll reads what some backend may want.
LEMMA PollType ==
  ASSUME TypeOK, blocked = "no", Poll
  PROVE  /\ blocked' \in {"no", "poll"}
         /\ blocked' # "poll" => seen' = Nothing
         /\ seen' \in Wanted /\ offers' \in 0 .. MaxOffers
  <1>1. Nothing \in Wanted
    BY DEF Nothing, Wanted
  <1> QED
    BY <1>1, WebAssumption DEF Poll, TypeOK, ErrorPage, pollVars

LEMMA PollIInv ==
  ASSUME IInv, NEW upgrade \in AnyUpgrade, NEW cancelId \in Id \cup {NoId},
         ReqInit \/ ReqCheck \/ CheckUpgrade \/ PollEnds(upgrade, cancelId)
  PROVE  IInv'
  <1>1. CASE ReqInit
    <2>1. requests' \in Seq(MayRequest) /\ blocked = "no"
      BY <1>1, TakesType DEF ReqInit, IInv
    <2>2. UNCHANGED <<pollVars, offers>> \/ Poll
      BY <1>1 DEF ReqInit
    <2>3. /\ blocked' \in {"no", "poll"}
          /\ blocked' # "poll" => seen' = Nothing
          /\ seen' \in Wanted /\ offers' \in 0 .. MaxOffers
      BY <2>1, <2>2, PollType DEF pollVars, IInv, TypeOK
    <2> QED
      BY <1>1, <2>1, <2>3, Requests DEF ReqInit, IInv, TypeOK, StateIsWorked,
          HandlerSets, workVars
  <1>2. CASE ReqCheck
    <2>1. requests' \in Seq(MayRequest) /\ blocked = "no"
      BY <1>2, TakesType DEF ReqCheck, IInv
    <2>2. /\ blocked' \in {"no", "poll"}
          /\ blocked' # "poll" => seen' = Nothing
          /\ seen' \in Wanted /\ offers' \in 0 .. MaxOffers
      BY <1>2, <2>1, PollType DEF ReqCheck, IInv
    <2> QED
      BY <1>2, <2>1, <2>2, Requests DEF ReqCheck, IInv, TypeOK, StateIsWorked,
          HandlerSets, workVars
  <1>3. CASE CheckUpgrade
    <2>1. /\ blocked' \in {"no", "poll"}
          /\ blocked' # "poll" => seen' = Nothing
          /\ seen' \in Wanted /\ offers' \in 0 .. MaxOffers
      BY <1>3, PollType DEF CheckUpgrade, IInv
    <2> QED
      BY <1>3, <2>1, Requests DEF CheckUpgrade, IInv, TypeOK, StateIsWorked, HandlerSets,
          workVars
  <1>4. CASE PollEnds(upgrade, cancelId)
    <2>1. Nothing \in Wanted
      BY DEF Nothing, Wanted
    <2> QED
      BY <1>4, <2>1, Requests DEF PollEnds, IInv, TypeOK, StateIsWorked, HandlerSets,
          workVars, backendVars
  <1> QED
    BY <1>1, <1>2, <1>3, <1>4

LEMMA RequestIInv ==
  ASSUME IInv, ReqDownload \/ ReqVerify \/ ReqDistribute \/ ReqStop PROVE IInv'
  BY SetsIInv, Requests DEF ReqDownload, ReqVerify, ReqDistribute, ReqStop

\* A handler that goes on, or that ends without a worker.
LEMMA PullIInv ==
  ASSUME IInv, Stopped \/ SeesHandle \/ CanPull \/ CannotPull PROVE IInv'
  <1>1. /\ blocked \in {"REQ_STOP", "listen", "serving"} /\ blocked' \in {"no", "serving"}
        /\ seen' = seen
        /\ UNCHANGED <<requests, hasInited, work, workId, handle, webState, stored,
                       backend, offers>>
    BY DEF Stopped, SeesHandle, CanPull, CannotPull, Returns, workVars, backendVars
  <1>2. StateIsWorked' /\ HandlerSets'
    BY <1>1, Requests DEF IInv, StateIsWorked, HandlerSets
  <1> QED
    BY <1>1, <1>2, Requests DEF IInv, TypeOK

\* What a backend makes of a feedback is again something that it may want.
LEMMA ReceivedType ==
  ASSUME TypeOK, NEW e PROVE Received(e) \in Wanted
  BY DEF Received, TypeOK, Nothing, Wanted

LEMMA FeedbackIInv ==
  ASSUME IInv, ReqFeedback PROVE IInv'
  <1>1. requests' \in Seq(MayRequest) /\ blocked = "no"
    BY TakesType DEF ReqFeedback, IInv
  <1>2. backend' \in Wanted /\ offers' \in 0 .. MaxOffers
    BY ReceivedType, WebAssumption DEF ReqFeedback, backendVars, ErrorPage, IInv, TypeOK
  <1> QED
    BY <1>1, <1>2, Requests DEF ReqFeedback, IInv, TypeOK, StateIsWorked, HandlerSets,
          workVars, pollVars

LEMMA BackendIInv ==
  ASSUME IInv, Backend PROVE IInv'
  <1>1. PICK b : Offer(b) /\ b \in Wanted
    <2>1. \A u \in Upgrades : [upgrade |-> u, cancel |-> FALSE] \in Wanted
      BY DEF Wanted
    <2>2. [backend EXCEPT !.cancel = TRUE] \in Wanted
      BY DEF IInv, TypeOK, Wanted
    <2>3. Nothing \in Wanted
      BY DEF Nothing, Wanted
    <2> QED
      BY <2>1, <2>2, <2>3 DEF Backend
  <1>2. offers' \in 0 .. MaxOffers
    BY <1>1, WebAssumption DEF Offer, IInv, TypeOK
  <1> QED
    BY <1>1, <1>2, Requests DEF Offer, IInv, TypeOK, StateIsWorked, HandlerSets,
          workVars, pollVars

LEMMA AskIInv ==
  ASSUME IInv, Ask PROVE IInv'
  <1>1. requests' \in Seq(MayRequest)
    BY RequestsType DEF Ask, IInv, TypeOK
  <1> QED
    BY <1>1, Requests DEF Ask, IInv, TypeOK, StateIsWorked, HandlerSets, workVars,
          pollVars, backendVars

\* A step of the queue beside any server.
LEMMA WebNextIInv ==
  ASSUME IInv, NEW upgrade \in AnyUpgrade, NEW cancelId \in Id \cup {NoId},
         WebNext(upgrade, cancelId)
  PROVE  IInv'
  <1>1. CASE WorkEnds \/ StopThread \/ EndCb \/ Listen
    BY <1>1, WorkerIInv
  <1>2. CASE ReqInit \/ ReqCheck \/ PollEnds(upgrade, cancelId)
    BY <1>2, PollIInv
  <1>3. CASE ReqDownload \/ ReqVerify \/ ReqDistribute \/ ReqStop
    BY <1>3, RequestIInv
  <1>4. CASE StartThread(upgrade)
    BY <1>4, StartIInv
  <1>5. CASE Stopped \/ SeesHandle \/ CanPull \/ CannotPull
    BY <1>5, PullIInv
  <1> QED
    BY <1>1, <1>2, <1>3, <1>4, <1>5, FeedbackIInv DEF WebNext

LEMMA StepIInv ==
  ASSUME IInv, [WebQueueNext]_webVars PROVE IInv'
  <1>1. CASE Asked
    BY <1>1, WebNextIInv DEF Asked, AnyUpgrade
  <1>2. CASE Backend
    BY <1>2, BackendIInv
  <1>3. CASE Ask
    BY <1>3, AskIInv
  <1>4. CASE CheckUpgrade
    <2>1. NoUpgrade \in AnyUpgrade /\ NoId \in Id \cup {NoId}
      BY DEF AnyUpgrade
    <2> QED
      BY <1>4, <2>1, PollIInv
  <1>5. CASE UNCHANGED webVars
    BY <1>5, Requests DEF webVars, IInv, TypeOK, StateIsWorked, HandlerSets, workVars,
          pollVars, backendVars
  <1> QED
    BY <1>1, <1>2, <1>3, <1>4, <1>5 DEF WebQueueNext

-----------------------------------------------------------------------------
(* The theorems. *)

THEOREM Invariance == WebSpec => []IInv
  BY InitIInv, StepIInv, PTL DEF WebSpec

\* The variables keep their types: files are served only by a worker that
\* distributes, and only a poll has read anything (eventChanged, stopThread).
THEOREM TypeCorrect == WebSpec => []TypeOK
  BY Invariance, PTL DEF IInv

\* The state that the server asks for before it lets the clients pull is that of a
\* worker, whatever the server asks for and the backend wants (setEndCb).
THEOREM StatesWorked == WebSpec => []StateIsWorked
  BY Invariance, PTL DEF IInv
=============================================================================
