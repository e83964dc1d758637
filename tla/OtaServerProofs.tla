-------------------------- MODULE OtaServerProofs ---------------------------
(***************************************************************************)
(* Proofs about OtaServer, for every set of domains, upgrades and reports. *)
(* The invariants of OtaServer are inductive together (IInv): each needs   *)
(* TypeOK, CancelUnderway needs that nothing else enters MR_CANCEL, and    *)
(* ControlFitsState needs ConfirmationCanEnd to know which events are      *)
(* ignored.  ResumeAsked needs that the status file is current, and what   *)
(* was read from it (RInv).  SuccessIsTrue follows from IInv: what a step  *)
(* posts is a sequence of events that are truthful in the state it starts  *)
(* from.                                                                   *)
(***************************************************************************)
EXTENDS OtaServer, TLAPS, FiniteSetTheorems, SequenceTheorems

\* The status file tells the state the server is in (setState).
StatusFileCurrent ==
  state # "MR_OFFLINE" => status.state = state

IInv ==
  /\ TypeOK
  /\ ConfirmationCanEnd
  /\ CancelUnderway
  /\ SelectionFresh
  /\ DetailsOfUpgrade
  /\ ControlFitsState
  /\ StatusFileCurrent

\* The inductive invariant holds initially.
LEMMA InitIInv == Init => IInv
  <1> SUFFICES ASSUME Init PROVE IInv
    OBVIOUS
  <1> USE DEF Init
  <1>1. NoJob \in Job
    BY DEF NoJob, Job, Unheard, DomainReport, ClientState, Version, NoUpgrade
  <1>2. TypeOK
    <2>1. status \in [state : ServerState, depends : SUBSET Domain]
      BY DEF NoStatus, ServerState
    <2>2. retryTimes \in 0 .. RETRY_TIMES
      BY InputAssumption
    <2>3. state \in ServerState /\ lastState \in ServerState
      BY DEF ServerState
    <2>4. type \in FeedType /\ control \in Control
      BY DEF FeedType, Control
    <2> QED
      BY <1>1, <2>1, <2>2, <2>3, <2>4 DEF TypeOK
  <1>3. ConfirmationCanEnd /\ CancelUnderway /\ SelectionFresh /\ ControlFitsState
          /\ StatusFileCurrent
    BY DEF ConfirmationCanEnd, CancelUnderway, SelectionFresh, ControlFitsState,
           StatusFileCurrent, Confirming
  <1>4. DetailsOfUpgrade
    BY DEF DetailsOfUpgrade, NoJob, NoUpgrade
  <1> QED
    BY <1>2, <1>3, <1>4 DEF IInv

-----------------------------------------------------------------------------
(* The jobs that the handlers make are jobs. *)

\* The job that idle() leaves behind is one.
LEMMA NoJobType == NoJob \in Job
  BY DEF NoJob, Job, Unheard, DomainReport, ClientState, Version, NoUpgrade

\* pending() makes a job of the upgrade, in which no clock of an earlier one runs.
LEMMA FreshType ==
  ASSUME NEW u \in Upgrade, NEW j \in Job
  PROVE  /\ Fresh(u, j) \in Job
         /\ Fresh(u, j).upgrade = u
         /\ Fresh(u, j).listed = u.domains
         /\ Fresh(u, j).heard = {}
         /\ Fresh(u, j).deploying = {}
         /\ Fresh(u, j).cancelId = j.cancelId
         /\ Fresh(u, j).subscribed = j.subscribed
  <1>1. Unheard \in DomainReport
    BY DEF Unheard, DomainReport, ClientState, Version
  <1>2. u.domains \in SUBSET Domain
    BY DEF Upgrade
  <1> QED
    BY <1>1, <1>2 DEF Fresh, Job

\* setState leaves the server in the state asked for, and the file with it.
LEMMA SetStateEffect ==
  ASSUME IInv, NEW from \in ServerState, NEW new \in ServerState,
         NEW before, NEW after, job' \in Job,
         from = state \/ new # from,
         state # "MR_OFFLINE" \/ new # from,
         SetState(from, new, before, after)
  PROVE  /\ state' = new
         /\ lastState' \in ServerState
         /\ status' \in [state : ServerState, depends : SUBSET Domain]
         /\ StatusFileCurrent'
  BY DEF SetState, IInv, TypeOK, StatusFileCurrent, Job

-----------------------------------------------------------------------------
(* Every step preserves the invariant. *)

\* A crash and restart keep the invariant; only the status file survives them.
LEMMA RestartIInv ==
  ASSUME IInv, Restart
  PROVE  IInv'
  <1> USE DEF Restart
  <1>1. TypeOK'
    <2>1. status' \in [state : ServerState, depends : SUBSET Domain]
      BY DEF IInv, TypeOK
    <2>2. retryTimes' \in 0 .. RETRY_TIMES
      BY InputAssumption
    <2>3. state' \in ServerState /\ lastState' \in ServerState
      BY DEF ServerState
    <2>4. type' \in FeedType /\ control' \in Control
      BY DEF FeedType, Control
    <2>5. interrupted' \in BOOLEAN
      BY DEF IInv, TypeOK
    <2> QED
      BY <2>1, <2>2, <2>3, <2>4, <2>5, NoJobType DEF TypeOK
  <1>2. ConfirmationCanEnd' /\ CancelUnderway' /\ SelectionFresh' /\ ControlFitsState'
          /\ StatusFileCurrent'
    BY DEF ConfirmationCanEnd, CancelUnderway, SelectionFresh, ControlFitsState,
           StatusFileCurrent, Confirming
  <1>3. DetailsOfUpgrade'
    BY DEF DetailsOfUpgrade, NoJob, NoUpgrade
  <1> QED
    BY <1>1, <1>2, <1>3 DEF IInv

\* The end of a phase of the transfer keeps the invariant, in whatever state it
\* arrives: the handlers do not ask which phase the server is in.
LEMMA PhaseDoneIInv ==
  ASSUME IInv, NEW next \in {"MR_VERIFY", "MR_DISTRIBUTE", "MR_WAIT"}, NEW request,
         state # "MR_OFFLINE",
         PhaseDone(next, request)
  PROVE  IInv'
  <1> USE DEF PhaseDone, bootVars
  <1>1. next \in ServerState /\ state \in ServerState /\ job' \in Job
    BY DEF ServerState, IInv, TypeOK
  <1>2. /\ state' = next
        /\ lastState' \in ServerState
        /\ status' \in [state : ServerState, depends : SUBSET Domain]
        /\ StatusFileCurrent'
    BY <1>1, SetStateEffect
  <1>3. TypeOK'
    BY <1>1, <1>2 DEF IInv, TypeOK
  <1>4. ConfirmationCanEnd' /\ CancelUnderway' /\ SelectionFresh' /\ ControlFitsState'
    BY <1>2 DEF ConfirmationCanEnd, CancelUnderway, SelectionFresh, ControlFitsState,
           Confirming
  <1>5. DetailsOfUpgrade'
    BY <1>2 DEF DetailsOfUpgrade, IInv
  <1> QED
    BY <1>2, <1>3, <1>4, <1>5 DEF IInv

\* feedback() ends in a state that satisfies the invariant, whatever state of a
\* request it is called in, if the details of its job are those of the upgrade.
LEMMA FeedbackEffect ==
  ASSUME IInv, NEW finished \in BOOLEAN, NEW from \in ServerState, NEW j \in Job,
         NEW before, NEW message, NEW after,
         state # "MR_OFFLINE",
         from = state \/ from \notin {"MR_OFFLINE", "MR_IDLE", "MR_DONE_ASK", "MR_ERROR_ASK"},
         j.listed = j.upgrade.domains,
         j.heard \cup j.deploying \subseteq j.listed,
         from = "MR_IDLE" => j.upgrade = NoUpgrade,
         Feedback(finished, from, j, before, message, after)
  PROVE  /\ state' \in ServerState /\ lastState' \in ServerState
         /\ status' \in [state : ServerState, depends : SUBSET Domain]
         /\ job' \in Job
         /\ hasFeed' \in BOOLEAN /\ failed' \in BOOLEAN
         /\ control' \in Control
         /\ ConfirmationCanEnd' /\ CancelUnderway' /\ SelectionFresh'
         /\ DetailsOfUpgrade' /\ ControlFitsState' /\ StatusFileCurrent'
  <1> DEFINE confirm == IF finished THEN "MR_DONE_ASK" ELSE "MR_ERROR_ASK"
  <1>1. /\ hasFeed' = TRUE
        /\ failed' = ~finished
        /\ control' = "CTL_CLEAR"
    BY DEF Feedback, SendControlMessage
  <1>2. control' \in Control
    BY <1>1 DEF Control
  <1>3. CASE j.subscribed
    <2>1. /\ job' = j
          /\ \E b : SetState(from, confirm, b, after)
      BY <1>3 DEF Feedback, Subscribed
    <2>2. confirm \in ServerState /\ confirm # "MR_OFFLINE"
      BY DEF ServerState
    <2>3. /\ state' = confirm
          /\ lastState' \in ServerState
          /\ status' \in [state : ServerState, depends : SUBSET Domain]
          /\ StatusFileCurrent'
      BY <2>1, <2>2, SetStateEffect
    <2>4. ConfirmationCanEnd' /\ CancelUnderway' /\ SelectionFresh' /\ ControlFitsState'
      BY <1>1, <1>3, <2>1, <2>3
      DEF ConfirmationCanEnd, CancelUnderway, SelectionFresh, ControlFitsState, Confirming
    <2>5. DetailsOfUpgrade'
      BY <2>1, <2>3 DEF DetailsOfUpgrade
    <2> QED
      BY <1>1, <1>2, <2>1, <2>2, <2>3, <2>4, <2>5
  <1>4. CASE ~j.subscribed
    <2>1. /\ job' = IF from = "MR_IDLE" THEN j ELSE NoJob
          /\ \E b : SetState(from, "MR_IDLE", b, after)
      BY <1>4 DEF Feedback, Subscribed
    <2>2. job' \in Job
      BY <2>1, NoJobType
    <2>3. "MR_IDLE" \in ServerState
      BY DEF ServerState
    <2>4. /\ state' = "MR_IDLE"
          /\ lastState' \in ServerState
          /\ status' \in [state : ServerState, depends : SUBSET Domain]
          /\ StatusFileCurrent'
      BY <2>1, <2>2, <2>3, SetStateEffect
    <2>5. ConfirmationCanEnd' /\ CancelUnderway' /\ SelectionFresh' /\ ControlFitsState'
      BY <2>4
      DEF ConfirmationCanEnd, CancelUnderway, SelectionFresh, ControlFitsState, Confirming
    <2>6. DetailsOfUpgrade'
      <3>1. NoJob.listed = {} /\ NoJob.upgrade = NoUpgrade /\ NoUpgrade.domains = {}
            /\ NoJob.heard = {} /\ NoJob.deploying = {}
        BY DEF NoJob, NoUpgrade
      <3> QED
        BY <2>1, <2>4, <3>1 DEF DetailsOfUpgrade
    <2> QED
      BY <1>1, <1>2, <2>2, <2>3, <2>4, <2>5, <2>6
  <1> QED
    BY <1>3, <1>4 DEF Job

\* idle() ends in a state that satisfies the invariant, with an empty job.
LEMMA IdleEffect ==
  ASSUME IInv, NEW j \in Job, NEW before,
         j.listed = j.upgrade.domains,
         j.heard \cup j.deploying \subseteq j.listed,
         state = "MR_IDLE" => j.upgrade = NoUpgrade,
         Idle(state, j, before)
  PROVE  /\ state' \in ServerState /\ lastState' \in ServerState
         /\ status' \in [state : ServerState, depends : SUBSET Domain]
         /\ job' \in Job
         /\ ConfirmationCanEnd' /\ CancelUnderway' /\ SelectionFresh'
         /\ DetailsOfUpgrade' /\ ControlFitsState' /\ StatusFileCurrent'
  <1>1. /\ job' = IF state = "MR_IDLE" THEN j ELSE NoJob
        /\ SetState(state, "MR_IDLE", before, <<>>)
    BY DEF Idle
  <1>2. job' \in Job
    BY <1>1, NoJobType
  <1>3. "MR_IDLE" \in ServerState /\ state \in ServerState
    BY DEF ServerState, IInv, TypeOK
  <1>4. /\ state' = "MR_IDLE"
        /\ lastState' \in ServerState
        /\ status' \in [state : ServerState, depends : SUBSET Domain]
        /\ StatusFileCurrent'
    BY <1>1, <1>2, <1>3, SetStateEffect
  <1>5. ConfirmationCanEnd' /\ CancelUnderway' /\ SelectionFresh' /\ ControlFitsState'
    BY <1>4
    DEF ConfirmationCanEnd, CancelUnderway, SelectionFresh, ControlFitsState, Confirming
  <1>6. DetailsOfUpgrade'
    <2>1. NoJob.listed = {} /\ NoJob.upgrade = NoUpgrade /\ NoUpgrade.domains = {}
          /\ NoJob.heard = {} /\ NoJob.deploying = {}
      BY DEF NoJob, NoUpgrade
    <2> QED
      BY <1>1, <1>4, <2>1 DEF DetailsOfUpgrade
  <1> QED
    BY <1>2, <1>3, <1>4, <1>5, <1>6

\* pending() ends in a state that satisfies the invariant, with a fresh job.
LEMMA PendingEffect ==
  ASSUME IInv, NEW u \in Upgrade, NEW j \in Job, NEW message,
         state # "MR_OFFLINE",
         Pending(u, j, message),
         type' = "TP_DEPLOY", hasFeed' = FALSE
  PROVE  /\ state' \in ServerState /\ lastState' \in ServerState
         /\ status' \in [state : ServerState, depends : SUBSET Domain]
         /\ job' \in Job
         /\ failed' \in BOOLEAN
         /\ control' \in Control
         /\ ConfirmationCanEnd' /\ CancelUnderway' /\ SelectionFresh'
         /\ DetailsOfUpgrade' /\ ControlFitsState' /\ StatusFileCurrent'
  <1>1. /\ failed' = FALSE
        /\ job' = Fresh(u, j)
        /\ control' = "CTL_RESET"
        /\ SetState(state, "MR_PENDING", <<>>, <<>>)
    BY DEF Pending, SendControlMessage
  <1>2. /\ job' \in Job
        /\ job'.upgrade = u
        /\ job'.listed = u.domains
        /\ job'.heard = {} /\ job'.deploying = {}
    BY <1>1, FreshType
  <1>3. "MR_PENDING" \in ServerState /\ state \in ServerState /\ control' \in Control
    BY <1>1 DEF ServerState, IInv, TypeOK, Control
  <1>4. /\ state' = "MR_PENDING"
        /\ lastState' \in ServerState
        /\ status' \in [state : ServerState, depends : SUBSET Domain]
        /\ StatusFileCurrent'
    BY <1>1, <1>2, <1>3, SetStateEffect
  <1>5. ConfirmationCanEnd' /\ CancelUnderway' /\ ControlFitsState'
    BY <1>1, <1>4 DEF ConfirmationCanEnd, CancelUnderway, ControlFitsState, Confirming
  <1>6. u # NoUpgrade
    BY IdAssumption DEF Upgrade, NoUpgrade
  <1>7. SelectionFresh' /\ DetailsOfUpgrade'
    BY <1>1, <1>2, <1>4, <1>6 DEF SelectionFresh, DetailsOfUpgrade
  <1> QED
    BY <1>1, <1>2, <1>3, <1>4, <1>5, <1>7

\* feedback() called by an event keeps the invariant, answered before or not.
LEMMA TryFeedbackEffect ==
  ASSUME IInv, NEW finished \in BOOLEAN, NEW j \in Job, NEW message,
         state # "MR_OFFLINE",
         type' = type,
         j.upgrade = job.upgrade, j.cancelId = job.cancelId,
         j.listed = job.listed, j.deploying = job.deploying,
         job.subscribed => j.subscribed,
         j.heard \subseteq j.listed,
         TryFeedback(finished, j, message)
  PROVE  /\ state' \in ServerState /\ lastState' \in ServerState
         /\ status' \in [state : ServerState, depends : SUBSET Domain]
         /\ job' \in Job
         /\ hasFeed' \in BOOLEAN /\ failed' \in BOOLEAN
         /\ control' \in Control
         /\ ConfirmationCanEnd' /\ CancelUnderway' /\ SelectionFresh'
         /\ DetailsOfUpgrade' /\ ControlFitsState' /\ StatusFileCurrent'
  <1>1. j.listed = j.upgrade.domains
    BY DEF IInv, DetailsOfUpgrade
  <1>2. j.deploying \subseteq j.listed
    BY DEF IInv, DetailsOfUpgrade
  <1>3. state = "MR_IDLE" => j.upgrade = NoUpgrade
    BY DEF IInv, DetailsOfUpgrade
  <1>4. CASE Answered
    <2>1. /\ job' = j
          /\ UNCHANGED <<state, lastState, status, hasFeed, failed, control>>
      BY <1>4 DEF TryFeedback
    <2>2. /\ state' \in ServerState /\ lastState' \in ServerState
          /\ status' \in [state : ServerState, depends : SUBSET Domain]
          /\ hasFeed' \in BOOLEAN /\ failed' \in BOOLEAN
          /\ control' \in Control
      BY <2>1 DEF IInv, TypeOK
    <2>3. ConfirmationCanEnd' /\ ControlFitsState' /\ StatusFileCurrent'
      BY <2>1 DEF IInv, ConfirmationCanEnd, ControlFitsState, StatusFileCurrent, Confirming
    <2>4. CancelUnderway' /\ SelectionFresh'
      BY <2>1 DEF IInv, CancelUnderway, SelectionFresh
    <2>5. DetailsOfUpgrade'
      BY <1>1, <1>2, <2>1 DEF IInv, DetailsOfUpgrade
    <2> QED
      BY <2>1, <2>2, <2>3, <2>4, <2>5
  <1>5. CASE ~Answered
    <2>1. Feedback(finished, state, j, <<>>, message, <<>>)
      BY <1>5 DEF TryFeedback
    <2>2. state \in ServerState
      BY DEF IInv, TypeOK
    <2> QED
      BY <1>1, <1>2, <1>3, <2>1, <2>2, FeedbackEffect
  <1> QED
    BY <1>4, <1>5

-----------------------------------------------------------------------------
(* The events of the web queue. *)

\* A retry of the download keeps the invariant.
LEMMA RetryDownloadIInv ==
  ASSUME IInv, RetryDownload
  PROVE  IInv'
  <1> USE DEF RetryDownload, RetriesLeft, bootVars
  <1>1. "MR_DOWNLOAD" \in ServerState /\ state \in ServerState /\ job' \in Job
    BY DEF ServerState, IInv, TypeOK
  <1>2. /\ state' = "MR_DOWNLOAD"
        /\ lastState' \in ServerState
        /\ status' \in [state : ServerState, depends : SUBSET Domain]
        /\ StatusFileCurrent'
    BY <1>1, SetStateEffect
  <1>3. retryTimes' \in 0 .. RETRY_TIMES
    BY InputAssumption DEF IInv, TypeOK
  <1>4. TypeOK'
    BY <1>1, <1>2, <1>3 DEF IInv, TypeOK
  <1>5. ConfirmationCanEnd' /\ CancelUnderway' /\ SelectionFresh' /\ ControlFitsState'
    BY <1>2 DEF ConfirmationCanEnd, CancelUnderway, SelectionFresh, ControlFitsState,
           Confirming
  <1>6. DetailsOfUpgrade'
    BY <1>2 DEF DetailsOfUpgrade, IInv
  <1> QED
    BY <1>2, <1>4, <1>5, <1>6 DEF IInv

\* A failure that is answered keeps the invariant.
LEMMA GiveUpIInv ==
  ASSUME IInv, state # "MR_OFFLINE", GiveUp
  PROVE  IInv'
  <1> USE DEF GiveUp, bootVars
  <1>1. job \in Job /\ job.heard \subseteq job.listed
    BY DEF IInv, TypeOK, DetailsOfUpgrade
  <1>2. retryTimes' \in 0 .. RETRY_TIMES
    BY InputAssumption DEF IInv, TypeOK
  <1>3. /\ state' \in ServerState /\ lastState' \in ServerState
        /\ status' \in [state : ServerState, depends : SUBSET Domain]
        /\ job' \in Job
        /\ hasFeed' \in BOOLEAN /\ failed' \in BOOLEAN
        /\ control' \in Control
        /\ ConfirmationCanEnd' /\ CancelUnderway' /\ SelectionFresh'
        /\ DetailsOfUpgrade' /\ ControlFitsState' /\ StatusFileCurrent'
    BY <1>1, TryFeedbackEffect
  <1>4. TypeOK'
    BY <1>2, <1>3 DEF IInv, TypeOK
  <1> QED
    BY <1>3, <1>4 DEF IInv

\* Going idle on the backend's word keeps the invariant.
LEMMA ReqIdleIInv ==
  ASSUME IInv, ReqIdle
  PROVE  IInv'
  <1> USE DEF ReqIdle, bootVars
  <1>1. /\ job \in Job
        /\ job.listed = job.upgrade.domains
        /\ job.heard \cup job.deploying \subseteq job.listed
        /\ state = "MR_IDLE" => job.upgrade = NoUpgrade
    BY DEF IInv, TypeOK, DetailsOfUpgrade
  <1>2. /\ state' \in ServerState /\ lastState' \in ServerState
        /\ status' \in [state : ServerState, depends : SUBSET Domain]
        /\ job' \in Job
        /\ ConfirmationCanEnd' /\ CancelUnderway' /\ SelectionFresh'
        /\ DetailsOfUpgrade' /\ ControlFitsState' /\ StatusFileCurrent'
    BY <1>1, IdleEffect
  <1>3. TypeOK'
    BY <1>2 DEF IInv, TypeOK
  <1> QED
    BY <1>2, <1>3 DEF IInv

\* The first event of the web queue keeps the invariant.
LEMMA ResInitIInv ==
  ASSUME IInv, ResInit
  PROVE  IInv'
  <1> USE DEF ResInit
  <1>1. /\ job \in Job
        /\ job.listed = job.upgrade.domains
        /\ job.heard \cup job.deploying \subseteq job.listed
        /\ state = "MR_IDLE" => job.upgrade = NoUpgrade
    BY DEF IInv, TypeOK, DetailsOfUpgrade
  <1>2. /\ state' \in ServerState /\ lastState' \in ServerState
        /\ status' \in [state : ServerState, depends : SUBSET Domain]
        /\ job' \in Job
        /\ ConfirmationCanEnd' /\ CancelUnderway' /\ SelectionFresh'
        /\ DetailsOfUpgrade' /\ ControlFitsState' /\ StatusFileCurrent'
    BY <1>1, IdleEffect
  <1>3. cacheState' \in {"MR_UNKNOWN", "MR_DEPLOY"} /\ cacheDepends' \in SUBSET Domain
    BY DEF IInv, TypeOK
  <1>4. TypeOK'
    BY <1>2, <1>3 DEF IInv, TypeOK
  <1> QED
    BY <1>2, <1>4 DEF IInv

\* A new upgrade keeps the invariant, whatever the server was doing.
LEMMA ReqUpgradeIInv ==
  ASSUME IInv, state # "MR_OFFLINE", NEW u \in Upgrades, ReqUpgrade(u)
  PROVE  IInv'
  <1> USE DEF ReqUpgrade, bootVars
  <1>1. u \in Upgrade /\ u.id \in Id /\ job \in Job
    BY InputAssumption DEF Upgrade, IInv, TypeOK
  <1>2. /\ state' \in ServerState /\ lastState' \in ServerState
        /\ status' \in [state : ServerState, depends : SUBSET Domain]
        /\ job' \in Job
        /\ failed' \in BOOLEAN
        /\ control' \in Control
        /\ ConfirmationCanEnd' /\ CancelUnderway' /\ SelectionFresh'
        /\ DetailsOfUpgrade' /\ ControlFitsState' /\ StatusFileCurrent'
    BY <1>1, PendingEffect
  <1>3. type' \in FeedType /\ hasNewId' \in BOOLEAN /\ cancelResume' \in BOOLEAN
        /\ lastlId' \in Id \cup {NoId} /\ hasDeployBreaked' \in BOOLEAN
        /\ hasFeed' \in BOOLEAN
    BY <1>1 DEF FeedType
  <1>4. TypeOK'
    BY <1>2, <1>3 DEF IInv, TypeOK
  <1> QED
    BY <1>2, <1>4 DEF IInv

\* A request to cancel keeps the invariant, answered or asked of the user.
LEMMA ReqCancelIInv ==
  ASSUME IInv, state # "MR_OFFLINE", NEW id \in Id, ReqCancel(id)
  PROVE  IInv'
  <1> USE DEF bootVars
  <1> DEFINE j == [job EXCEPT !.cancelId = id]
             Holds ==
               /\ state' \in ServerState /\ lastState' \in ServerState
               /\ status' \in [state : ServerState, depends : SUBSET Domain]
               /\ job' \in Job
               /\ hasFeed' \in BOOLEAN /\ failed' \in BOOLEAN
               /\ control' \in Control
               /\ ConfirmationCanEnd' /\ CancelUnderway' /\ SelectionFresh'
               /\ DetailsOfUpgrade' /\ ControlFitsState' /\ StatusFileCurrent'
  <1>1. /\ j \in Job
        /\ j.cancelId = id
        /\ j.listed = j.upgrade.domains
        /\ j.heard \cup j.deploying \subseteq j.listed
        /\ state = "MR_IDLE" => j.upgrade = NoUpgrade
        /\ state \in ServerState
    BY DEF IInv, TypeOK, DetailsOfUpgrade, Job
  <1>2. ASSUME \E after : \E finished \in BOOLEAN :
                 Feedback(finished, state, j, <<>>, <<>>, after)
        PROVE  Holds
    <2>0. PICK after : \E finished \in BOOLEAN :
            Feedback(finished, state, j, <<>>, <<>>, after)
      BY <1>2
    <2>1. PICK finished \in BOOLEAN :
            Feedback(finished, state, j, <<>>, <<>>, after)
      BY <2>0
    <2> HIDE DEF j
    <2> QED
      BY <1>1, <2>1, FeedbackEffect
  <1>3. ASSUME hasFeed' = FALSE, job' = j,
               SetState(state, "MR_CANCEL_ASK", <<>>, <<>>),
               UNCHANGED <<failed, control>>
        PROVE  Holds
    <2> HIDE DEF j
    <2>1. "MR_CANCEL_ASK" \in ServerState
      BY DEF ServerState
    <2>2. job' \in Job
      BY <1>1, <1>3
    <2>3. /\ state' = "MR_CANCEL_ASK"
          /\ lastState' \in ServerState
          /\ status' \in [state : ServerState, depends : SUBSET Domain]
          /\ StatusFileCurrent'
      BY <1>1, <1>3, <2>1, <2>2, SetStateEffect
    <2>4. type' = "TP_CANCEL" /\ job'.cancelId # NoId
      BY <1>1, <1>3, IdAssumption DEF ReqCancel
    <2>5. ConfirmationCanEnd' /\ CancelUnderway' /\ SelectionFresh' /\ ControlFitsState'
      BY <1>3, <2>3, <2>4
      DEF ConfirmationCanEnd, CancelUnderway, SelectionFresh, ControlFitsState, Confirming
    <2>6. DetailsOfUpgrade'
      BY <1>1, <1>3, <2>3 DEF DetailsOfUpgrade
    <2>7. hasFeed' \in BOOLEAN /\ failed' \in BOOLEAN /\ control' \in Control
      BY <1>3 DEF IInv, TypeOK
    <2> QED
      BY <2>1, <2>2, <2>3, <2>5, <2>6, <2>7
  <1>4. Holds
    BY <1>2, <1>3 DEF ReqCancel
  <1>5. /\ type' \in FeedType
        /\ lastCancelId' \in Id \cup {NoId}
        /\ hasDeployBreaked' \in BOOLEAN
    BY DEF ReqCancel, FeedType, IInv, TypeOK
  <1>6. UNCHANGED <<retryTimes, hasNewId, lastlId, cancelResume, firstStart, cacheState,
                    cacheDepends, interrupted>>
    BY DEF ReqCancel
  <1>7. TypeOK'
    BY <1>4, <1>5, <1>6 DEF IInv, TypeOK
  <1> QED
    BY <1>4, <1>7 DEF IInv

\* The start of the clients' download keeps the invariant.
LEMMA ReqPullIInv ==
  ASSUME IInv, state # "MR_OFFLINE", NEW distributing \in BOOLEAN, ReqPull(distributing)
  PROVE  IInv'
  <1> USE DEF ReqPull, bootVars
  <1>1. "MR_DISTRIBUTE" \in ServerState /\ state \in ServerState /\ job' \in Job
    BY DEF ServerState, IInv, TypeOK
  <1>2. /\ state' = "MR_DISTRIBUTE"
        /\ lastState' \in ServerState
        /\ status' \in [state : ServerState, depends : SUBSET Domain]
        /\ StatusFileCurrent'
    BY <1>1, SetStateEffect
  <1>3. control' \in Control
    BY DEF SendControlMessage, Control, IInv, TypeOK
  <1>4. TypeOK'
    BY <1>1, <1>2, <1>3 DEF IInv, TypeOK
  <1>5. ConfirmationCanEnd' /\ CancelUnderway' /\ SelectionFresh' /\ ControlFitsState'
    BY <1>2 DEF ConfirmationCanEnd, CancelUnderway, SelectionFresh, ControlFitsState,
           Confirming
  <1>6. DetailsOfUpgrade'
    BY <1>2 DEF DetailsOfUpgrade, IInv
  <1> QED
    BY <1>2, <1>4, <1>5, <1>6 DEF IInv

-----------------------------------------------------------------------------
(* The reports of the clients. *)

\* A report changes what is known of its sender and nothing else.
LEMMA RecordedType ==
  ASSUME IInv, NEW d \in Domain, NEW r \in DomainReport
  PROVE  /\ Recorded(d, r) \in Job
         /\ Recorded(d, r).upgrade = job.upgrade
         /\ Recorded(d, r).cancelId = job.cancelId
         /\ Recorded(d, r).listed = job.listed
         /\ Recorded(d, r).deploying = job.deploying
         /\ Recorded(d, r).heard \subseteq job.listed
         /\ job.subscribed => Recorded(d, r).subscribed
         /\ Recorded(d, r).subscribed \in BOOLEAN
  <1>1. job \in Job /\ job.heard \subseteq job.listed
    BY DEF IInv, TypeOK, DetailsOfUpgrade
  <1> QED
    BY <1>1 DEF Recorded, Job

\* A report without an answer keeps the invariant.
LEMMA ResDomainIInv ==
  ASSUME IInv, NEW d \in Domain, NEW r \in DomainReport, NEW discovery \in BOOLEAN,
         ResDomain(d, r, discovery)
  PROVE  IInv'
  <1> USE DEF bootVars, requestVars
  <1>1. /\ job' = Recorded(d, r)
        /\ UNCHANGED <<state, lastState, status, bootVars, requestVars, control>>
    BY DEF ResDomain
  <1>2. /\ job' \in Job
        /\ job'.upgrade = job.upgrade
        /\ job'.cancelId = job.cancelId
        /\ job'.listed = job.listed
        /\ job'.deploying = job.deploying
        /\ job'.heard \subseteq job.listed
        /\ job.subscribed => job'.subscribed
    BY <1>1, RecordedType
  <1>3. TypeOK'
    BY <1>1, <1>2 DEF IInv, TypeOK
  <1>4. ConfirmationCanEnd' /\ ControlFitsState' /\ StatusFileCurrent'
    BY <1>1, <1>2 DEF IInv, ConfirmationCanEnd, ControlFitsState, StatusFileCurrent, Confirming
  <1>5. CancelUnderway' /\ SelectionFresh'
    BY <1>1, <1>2 DEF IInv, CancelUnderway, SelectionFresh
  <1>6. DetailsOfUpgrade'
    BY <1>1, <1>2 DEF IInv, DetailsOfUpgrade
  <1> QED
    BY <1>3, <1>4, <1>5, <1>6 DEF IInv

\* Consent keeps the invariant; j is the job with the report that carried it.
LEMMA AcceptIInv ==
  ASSUME IInv, NEW j \in Job, NEW repeated,
         j.upgrade = job.upgrade, j.cancelId = job.cancelId,
         j.listed = job.listed, j.deploying = job.deploying,
         j.heard \subseteq job.listed,
         type' = type,
         UNCHANGED <<retryTimes, hasNewId, lastlId, lastCancelId, cancelResume,
                     firstStart, cacheDepends>>,
         Accept(j, repeated)
  PROVE  IInv'
  <1>1. /\ j.listed = j.upgrade.domains
        /\ j.heard \cup j.deploying \subseteq j.listed
        /\ state = "MR_IDLE" => j.upgrade = NoUpgrade
        /\ state \in ServerState
    BY DEF IInv, TypeOK, DetailsOfUpgrade
  <1>2. CASE /\ state = "MR_DOWNLOAD_ASK"
             /\ job' = j
             /\ SetState(state, "MR_DOWNLOAD", <<>>, <<Request("REQ_DOWNLOAD")>>)
             /\ UNCHANGED <<hasFeed, failed, control, cacheState, interrupted, hasDeployBreaked>>
    <2>1. "MR_DOWNLOAD" \in ServerState
      BY DEF ServerState
    <2>2. /\ state' = "MR_DOWNLOAD"
          /\ lastState' \in ServerState
          /\ status' \in [state : ServerState, depends : SUBSET Domain]
          /\ StatusFileCurrent'
      BY <1>1, <1>2, <2>1, SetStateEffect
    <2>3. TypeOK'
      BY <1>2, <2>1, <2>2 DEF IInv, TypeOK
    <2>4. ConfirmationCanEnd' /\ CancelUnderway' /\ SelectionFresh' /\ ControlFitsState'
      BY <2>2 DEF ConfirmationCanEnd, CancelUnderway, SelectionFresh, ControlFitsState, Confirming
    <2>5. DetailsOfUpgrade'
      BY <1>1, <1>2, <2>2 DEF DetailsOfUpgrade
    <2> QED
      BY <2>2, <2>3, <2>4, <2>5 DEF IInv
  <1>3. CASE /\ state = "MR_DEPLOY_ASK"
             /\ job' = j
             /\ SendControlMessage("CTL_DEPLOY", j, repeated)
             /\ SetState(state, "MR_DEPLOY", <<>>, <<>>)
             /\ UNCHANGED <<hasFeed, failed, cacheState, interrupted, hasDeployBreaked>>
    <2>1. "MR_DEPLOY" \in ServerState
      BY DEF ServerState
    <2>2. /\ state' = "MR_DEPLOY"
          /\ lastState' \in ServerState
          /\ status' \in [state : ServerState, depends : SUBSET Domain]
          /\ StatusFileCurrent'
      BY <1>1, <1>3, <2>1, SetStateEffect
    <2>3. control' = "CTL_DEPLOY" /\ control' \in Control
      BY <1>3 DEF SendControlMessage, Control
    <2>4. TypeOK'
      BY <1>3, <2>1, <2>2, <2>3 DEF IInv, TypeOK
    <2>5. ConfirmationCanEnd' /\ CancelUnderway' /\ SelectionFresh' /\ ControlFitsState'
      BY <2>2, <2>3
      DEF ConfirmationCanEnd, CancelUnderway, SelectionFresh, ControlFitsState, Confirming
    <2>6. DetailsOfUpgrade'
      BY <1>1, <1>3, <2>2 DEF DetailsOfUpgrade
    <2> QED
      BY <2>2, <2>4, <2>5, <2>6 DEF IInv
  <1>4. CASE /\ state = "MR_CANCEL_ASK"
             /\ job' = j
             /\ SendControlMessage("CTL_CANCEL", j, repeated)
             /\ SetState(state, "MR_CANCEL", <<>>, <<>>)
             /\ UNCHANGED <<hasFeed, failed, cacheState, interrupted, hasDeployBreaked>>
    <2>1. "MR_CANCEL" \in ServerState
      BY DEF ServerState
    <2>2. /\ state' = "MR_CANCEL"
          /\ lastState' \in ServerState
          /\ status' \in [state : ServerState, depends : SUBSET Domain]
          /\ StatusFileCurrent'
      BY <1>1, <1>4, <2>1, SetStateEffect
    <2>3. lastState' = "MR_CANCEL_ASK"
      BY <1>4 DEF SetState
    <2>4. control' = "CTL_CANCEL" /\ control' \in Control
      BY <1>4 DEF SendControlMessage, Control
    <2>5. TypeOK'
      BY <1>4, <2>1, <2>2, <2>4 DEF IInv, TypeOK
    <2>6. CancelUnderway'
      BY <1>4, <2>2, <2>3 DEF IInv, CancelUnderway
    <2>7. ConfirmationCanEnd' /\ SelectionFresh' /\ ControlFitsState'
      BY <2>2, <2>4 DEF ConfirmationCanEnd, SelectionFresh, ControlFitsState, Confirming
    <2>8. DetailsOfUpgrade'
      BY <1>1, <1>4, <2>2 DEF DetailsOfUpgrade
    <2> QED
      BY <2>2, <2>5, <2>6, <2>7, <2>8 DEF IInv
  <1>5. CASE /\ state = "MR_RESUME_ASK"
             /\ job' = [j EXCEPT !.depends = cacheDepends]
             /\ SendControlMessage("CTL_DEPLOY", job', repeated)
             /\ SetState(state, "MR_DEPLOY", <<>>, <<>>)
             /\ cacheState' = "MR_UNKNOWN" /\ interrupted' = FALSE
             /\ hasDeployBreaked' = FALSE
             /\ UNCHANGED <<hasFeed, failed>>
    <2>1. "MR_DEPLOY" \in ServerState
      BY DEF ServerState
    <2>2. /\ job' \in Job
          /\ job'.upgrade = j.upgrade
          /\ job'.listed = j.listed
          /\ job'.heard = j.heard
          /\ job'.deploying = j.deploying
      BY <1>5 DEF IInv, TypeOK, Job
    <2>3. /\ state' = "MR_DEPLOY"
          /\ lastState' \in ServerState
          /\ status' \in [state : ServerState, depends : SUBSET Domain]
          /\ StatusFileCurrent'
      BY <1>1, <1>5, <2>1, <2>2, SetStateEffect
    <2>4. control' = "CTL_DEPLOY" /\ control' \in Control
      BY <1>5 DEF SendControlMessage, Control
    <2>5. TypeOK'
      BY <1>5, <2>1, <2>2, <2>3, <2>4 DEF IInv, TypeOK
    <2>6. ConfirmationCanEnd' /\ CancelUnderway' /\ SelectionFresh' /\ ControlFitsState'
      BY <2>3, <2>4
      DEF ConfirmationCanEnd, CancelUnderway, SelectionFresh, ControlFitsState, Confirming
    <2>7. DetailsOfUpgrade'
      BY <1>1, <2>2, <2>3 DEF DetailsOfUpgrade
    <2> QED
      BY <2>3, <2>5, <2>6, <2>7 DEF IInv
  <1>6. CASE /\ Confirming
             /\ Idle(state, j, <<>>)
             /\ UNCHANGED <<hasFeed, failed, control, cacheState, interrupted, hasDeployBreaked>>
    <2>1. /\ state' \in ServerState /\ lastState' \in ServerState
          /\ status' \in [state : ServerState, depends : SUBSET Domain]
          /\ job' \in Job
          /\ ConfirmationCanEnd' /\ CancelUnderway' /\ SelectionFresh'
          /\ DetailsOfUpgrade' /\ ControlFitsState' /\ StatusFileCurrent'
      BY <1>1, <1>6, IdleEffect
    <2>2. TypeOK'
      BY <1>6, <2>1 DEF IInv, TypeOK
    <2> QED
      BY <2>1, <2>2 DEF IInv
  <1> QED
    BY <1>2, <1>3, <1>4, <1>5, <1>6 DEF Accept

\* A refusal keeps the invariant; it may start the same upgrade again.
LEMMA RefuseIInv ==
  ASSUME IInv, NEW j \in Job, NEW repeated,
         j.upgrade = job.upgrade, j.cancelId = job.cancelId,
         j.listed = job.listed, j.deploying = job.deploying,
         j.heard \subseteq job.listed,
         job.subscribed => j.subscribed,
         type' = type,
         UNCHANGED <<retryTimes, hasNewId, lastlId, lastCancelId, cancelResume,
                     firstStart, cacheDepends>>,
         Refuse(j, repeated)
  PROVE  IInv'
  <1> DEFINE Holds ==
        /\ state' \in ServerState /\ lastState' \in ServerState
        /\ status' \in [state : ServerState, depends : SUBSET Domain]
        /\ job' \in Job
        /\ hasFeed' \in BOOLEAN /\ failed' \in BOOLEAN
        /\ control' \in Control
        /\ hasDeployBreaked' \in BOOLEAN
        /\ ConfirmationCanEnd' /\ CancelUnderway' /\ SelectionFresh'
        /\ DetailsOfUpgrade' /\ ControlFitsState' /\ StatusFileCurrent'
  <1>1. /\ j.listed = j.upgrade.domains
        /\ j.heard \cup j.deploying \subseteq j.listed
        /\ state = "MR_IDLE" => j.upgrade = NoUpgrade
    BY DEF IInv, DetailsOfUpgrade
  <1>2. ASSUME state \in {"MR_DOWNLOAD_ASK", "MR_DEPLOY_ASK", "MR_CANCEL_ASK"},
               TryFeedback(FALSE, j, repeated),
               hasDeployBreaked' = hasDeployBreaked
        PROVE  Holds
    <2>1. state # "MR_OFFLINE" /\ hasDeployBreaked' \in BOOLEAN
      BY <1>2 DEF IInv, TypeOK
    <2> QED
      BY <1>1, <1>2, <2>1, TryFeedbackEffect
  <1>3. ASSUME state = "MR_RESUME_ASK", hasDeployBreaked' = FALSE,
               Pending(job.upgrade, j, repeated), hasFeed' = hasFeed
        PROVE  Holds
    <2>1. /\ job.upgrade \in Upgrade
          /\ type' = "TP_DEPLOY" /\ hasFeed' = FALSE
          /\ state # "MR_OFFLINE"
      BY <1>3 DEF IInv, TypeOK, Job, SelectionFresh
    <2> QED
      BY <1>3, <2>1, PendingEffect
  <1>4. ASSUME state = "MR_RESUME_ASK", hasDeployBreaked' = FALSE,
               Idle(state, j, <<>>),
               UNCHANGED <<hasFeed, failed, control>>
        PROVE  Holds
    <2>1. hasFeed' \in BOOLEAN /\ failed' \in BOOLEAN /\ control' \in Control
      BY <1>4 DEF IInv, TypeOK
    <2> QED
      BY <1>1, <1>4, <2>1, IdleEffect
  <1>5. Holds /\ UNCHANGED <<cacheState, interrupted>>
    BY <1>2, <1>3, <1>4 DEF Refuse
  <1>6. TypeOK'
    BY <1>5 DEF IInv, TypeOK
  <1> QED
    BY <1>5, <1>6 DEF IInv

\* An answer that is neither keeps the invariant.
LEMMA OtherAnswerIInv ==
  ASSUME IInv, NEW j \in Job, NEW repeated,
         j.upgrade = job.upgrade, j.cancelId = job.cancelId,
         j.listed = job.listed, j.deploying = job.deploying,
         j.heard \subseteq job.listed,
         type' = type,
         UNCHANGED <<retryTimes, hasNewId, lastlId, lastCancelId, cancelResume,
                     firstStart, cacheDepends>>,
         OtherAnswer(j, repeated)
  PROVE  IInv'
  <1> USE DEF OtherAnswer
  <1>1. TypeOK'
    BY DEF IInv, TypeOK
  <1>2. ConfirmationCanEnd' /\ ControlFitsState' /\ StatusFileCurrent'
    BY DEF IInv, ConfirmationCanEnd, ControlFitsState, StatusFileCurrent, Confirming
  <1>3. CancelUnderway' /\ SelectionFresh' /\ DetailsOfUpgrade'
    BY DEF IInv, CancelUnderway, SelectionFresh, DetailsOfUpgrade
  <1> QED
    BY <1>1, <1>2, <1>3 DEF IInv

\* A report with an answer keeps the invariant.
LEMMA ResAnswerIInv ==
  ASSUME IInv, NEW d \in Domain, NEW r \in DomainReport, NEW discovery \in BOOLEAN,
         NEW answer, ResAnswer(d, r, discovery, answer)
  PROVE  IInv'
  <1> DEFINE j == Recorded(d, r)
             repeated == Repeated(d, discovery)
  <1>1. /\ j \in Job
        /\ j.upgrade = job.upgrade
        /\ j.cancelId = job.cancelId
        /\ j.listed = job.listed
        /\ j.deploying = job.deploying
        /\ j.heard \subseteq job.listed
        /\ job.subscribed => j.subscribed
    BY RecordedType
  <1>2. /\ type' = type
        /\ UNCHANGED <<retryTimes, hasNewId, lastlId, lastCancelId, cancelResume,
                       firstStart, cacheDepends>>
        /\ \/ Accept(j, repeated) \/ Refuse(j, repeated) \/ OtherAnswer(j, repeated)
    BY DEF ResAnswer
  <1> HIDE DEF j, repeated
  <1>3. CASE Accept(j, repeated)
    BY <1>1, <1>2, <1>3, AcceptIInv
  <1>4. CASE Refuse(j, repeated)
    BY <1>1, <1>2, <1>4, RefuseIInv
  <1>5. CASE OtherAnswer(j, repeated)
    BY <1>1, <1>2, <1>5, OtherAnswerIInv
  <1> QED
    BY <1>2, <1>3, <1>4, <1>5

-----------------------------------------------------------------------------
(* The timer callback. *)

\* The walk through the domains changes their reports and, in a deployment,
\* which deploy clocks run and what is waited for; never which domains there are.
LEMMA AfterType ==
  ASSUME IInv, NEW n \in 0 .. Len(Order), NEW silent
  PROVE  /\ After(n, silent) \in Job
         /\ After(n, silent).upgrade = job.upgrade
         /\ After(n, silent).cancelId = job.cancelId
         /\ After(n, silent).subscribed = job.subscribed
         /\ After(n, silent).listed = job.listed
         /\ After(n, silent).heard = job.heard
         /\ After(n, silent).deploying \subseteq job.listed
         /\ ~InDeployment => After(n, silent).deploying = job.deploying
  <1>1. job \in Job /\ job.deploying \subseteq job.listed
    BY DEF IInv, TypeOK, DetailsOfUpgrade
  <1>2. ASSUME NEW k PROVE Expired(k, silent) \in [Domain -> DomainReport]
    <2>1. ASSUME NEW d \in Domain
          PROVE  [job.report[d] EXCEPT !.last = job.report[d].state, !.state = "WR_OFFLINE"]
                   \in DomainReport
      <3>1. job.report[d] \in DomainReport
        BY <1>1 DEF Job
      <3>2. \A r \in DomainReport :
              [r EXCEPT !.last = r.state, !.state = "WR_OFFLINE"] \in DomainReport
        BY DEF DomainReport, ClientState
      <3> QED
        BY <3>1, <3>2
    <2>2. \A d \in Domain : job.report[d] \in DomainReport
      BY <1>1 DEF Job
    <2> QED
      BY <2>1, <2>2 DEF Expired
  <1> DEFINE w == Visit(silent)[n]
             j == [job EXCEPT !.report = Expired(n + 1, silent)]
  <1>3. /\ j \in Job
        /\ j.upgrade = job.upgrade /\ j.cancelId = job.cancelId
        /\ j.subscribed = job.subscribed /\ j.listed = job.listed
        /\ j.heard = job.heard /\ j.deploying = job.deploying
    BY <1>1, <1>2 DEF Job
  <1>4. After(n, silent) =
          IF InDeployment
          THEN [ j EXCEPT !.deploying = {d \in job.listed : d \in w.deploying},
                          !.depends = Depends(n, silent) ]
          ELSE j
    BY DEF After
  <1>5. /\ {d \in job.listed : d \in w.deploying} \in SUBSET job.listed
        /\ Depends(n, silent) \in SUBSET Domain
        /\ job.listed \in SUBSET Domain
    BY <1>1 DEF Job, Depends
  <1> HIDE DEF w, j
  <1> QED
    BY <1>1, <1>3, <1>4, <1>5 DEF Job

\* Comparing versions moves the server within the selection, or to the download.
LEMMA SelectedCases ==
  ASSUME NEW j
  PROVE  \/ Selected(j) = state
         \/ /\ state \in {"MR_PENDING", "MR_READY", "MR_DOWNLOAD_ASK"}
            /\ Selected(j) \in {"MR_RESUME_ASK", "MR_PENDING", "MR_READY",
                                "MR_DOWNLOAD_ASK", "MR_DOWNLOAD"}
  BY DEF Selected, Selecting

\* Counting the waiting domains moves the server to or from their deployment only.
LEMMA ReleasedCases ==
  ASSUME NEW j
  PROVE  \/ Released(j) = state
         \/ /\ state \in {"MR_PENDING", "MR_READY", "MR_DOWNLOAD_ASK"}
            /\ Released(j) \in {"MR_RESUME_ASK", "MR_PENDING", "MR_READY",
                                "MR_DOWNLOAD_ASK", "MR_DOWNLOAD"}
         \/ /\ state \in {"MR_WAIT", "MR_DEPLOY_ASK"}
            /\ Released(j) \in {"MR_WAIT", "MR_DEPLOY_ASK", "MR_DEPLOY"}
  BY SelectedCases DEF Released

\* A complete walk keeps the invariant, however it is concluded.
LEMMA ConcludeEffect ==
  ASSUME IInv, Watching, type' = type, NEW feeds, NEW messages, NEW j \in Job,
         j.upgrade = job.upgrade, j.cancelId = job.cancelId,
         j.subscribed = job.subscribed, j.listed = job.listed,
         j.heard = job.heard, j.deploying \subseteq job.listed,
         ~InDeployment => j.deploying = job.deploying,
         Conclude(j, feeds, messages)
  PROVE  /\ state' \in ServerState /\ lastState' \in ServerState
         /\ status' \in [state : ServerState, depends : SUBSET Domain]
         /\ job' \in Job
         /\ hasFeed' \in BOOLEAN /\ failed' \in BOOLEAN
         /\ control' \in Control
         /\ ConfirmationCanEnd' /\ CancelUnderway' /\ SelectionFresh'
         /\ DetailsOfUpgrade' /\ ControlFitsState' /\ StatusFileCurrent'
  <1>1. /\ j.listed = j.upgrade.domains
        /\ j.heard \cup j.deploying \subseteq j.listed
    BY DEF IInv, DetailsOfUpgrade
  <1>2. /\ state \in ServerState
        /\ state \notin {"MR_OFFLINE", "MR_IDLE"}
        /\ ~hasFeed /\ ~failed /\ ~Confirming
    BY DEF IInv, TypeOK, Watching, ConfirmationCanEnd
  <1>3. ASSUME NEW finished \in BOOLEAN, NEW from \in {state, Selected(j), Released(j)},
               NEW before, NEW message,
               Feedback(finished, from, j, before, message, <<>>)
        PROVE  /\ state' \in ServerState /\ lastState' \in ServerState
               /\ status' \in [state : ServerState, depends : SUBSET Domain]
               /\ job' \in Job
               /\ hasFeed' \in BOOLEAN /\ failed' \in BOOLEAN
               /\ control' \in Control
               /\ ConfirmationCanEnd' /\ CancelUnderway' /\ SelectionFresh'
               /\ DetailsOfUpgrade' /\ ControlFitsState' /\ StatusFileCurrent'
    <2>1. /\ from \in ServerState
          /\ from = state \/ from \notin {"MR_OFFLINE", "MR_IDLE", "MR_DONE_ASK", "MR_ERROR_ASK"}
          /\ from # "MR_IDLE"
      BY <1>2, SelectedCases, ReleasedCases DEF ServerState
    <2> QED
      BY <1>1, <1>2, <1>3, <2>1, FeedbackEffect
  <1>4. ASSUME job' = j, SetState(state, Released(j), feeds, Demand(Released(j))),
               control' = IF Release(Released(j), j) = <<>> THEN control ELSE "CTL_DEPLOY",
               UNCHANGED <<hasFeed, failed>>
        PROVE  /\ state' \in ServerState /\ lastState' \in ServerState
               /\ status' \in [state : ServerState, depends : SUBSET Domain]
               /\ job' \in Job
               /\ hasFeed' \in BOOLEAN /\ failed' \in BOOLEAN
               /\ control' \in Control
               /\ ConfirmationCanEnd' /\ CancelUnderway' /\ SelectionFresh'
               /\ DetailsOfUpgrade' /\ ControlFitsState' /\ StatusFileCurrent'
    <2> DEFINE new == Released(j)
    <2>1. \/ new = state
          \/ /\ state \in {"MR_PENDING", "MR_READY", "MR_DOWNLOAD_ASK"}
             /\ new \in {"MR_RESUME_ASK", "MR_PENDING", "MR_READY",
                         "MR_DOWNLOAD_ASK", "MR_DOWNLOAD"}
          \/ /\ state \in {"MR_WAIT", "MR_DEPLOY_ASK"}
             /\ new \in {"MR_WAIT", "MR_DEPLOY_ASK", "MR_DEPLOY"}
      BY ReleasedCases
    <2>2. IF new = "MR_DEPLOY" /\ state # "MR_DEPLOY"
          THEN control' = "CTL_DEPLOY" ELSE control' = control
      BY <1>4 DEF Release
    <2>3. SetState(state, new, feeds, Demand(new)) /\ job' = j
      BY <1>4
    <2> HIDE DEF new
    <2>4. new \in ServerState /\ control' \in Control
      BY <1>2, <2>1, <2>2 DEF ServerState, Control, IInv, TypeOK
    <2>5. /\ state' = new
          /\ lastState' \in ServerState
          /\ status' \in [state : ServerState, depends : SUBSET Domain]
          /\ StatusFileCurrent'
      BY <1>2, <2>3, <2>4, SetStateEffect
    <2>6. CancelUnderway'
      <3>1. CASE new = state
        BY <1>4, <2>3, <2>5, <3>1 DEF IInv, CancelUnderway, SetState
      <3>2. CASE new # state
        BY <2>1, <2>5, <3>2 DEF CancelUnderway
      <3> QED
        BY <3>1, <3>2
    <2>7. SelectionFresh'
      BY <1>4, <2>1, <2>3, <2>5 DEF IInv, SelectionFresh, InDeployment
    <2>8. ConfirmationCanEnd' /\ ControlFitsState'
      BY <1>2, <2>1, <2>2, <2>5 DEF IInv, ConfirmationCanEnd, ControlFitsState, Confirming
    <2>9. DetailsOfUpgrade'
      BY <1>1, <1>2, <2>1, <2>3, <2>5 DEF DetailsOfUpgrade
    <2> QED
      BY <1>4, <2>3, <2>4, <2>5, <2>6, <2>7, <2>8, <2>9 DEF IInv, TypeOK
  <1> QED
    BY <1>3, <1>4 DEF Conclude

\* The timer callback keeps the invariant, wherever its walk ends.
LEMMA ProcessDomainsIInv ==
  ASSUME IInv, NEW late, NEW silent, NEW overdue,
         ProcessDomains(late, silent, overdue)
  PROVE  IInv'
  <1> USE DEF bootVars
  <1> DEFINE Holds ==
        /\ state' \in ServerState /\ lastState' \in ServerState
        /\ status' \in [state : ServerState, depends : SUBSET Domain]
        /\ job' \in Job
        /\ hasFeed' \in BOOLEAN /\ failed' \in BOOLEAN
        /\ control' \in Control
        /\ ConfirmationCanEnd' /\ CancelUnderway' /\ SelectionFresh'
        /\ DetailsOfUpgrade' /\ ControlFitsState' /\ StatusFileCurrent'
  <1>1. /\ Watching
        /\ type' = type
        /\ UNCHANGED <<retryTimes, hasNewId, lastlId, lastCancelId, cancelResume,
                       hasDeployBreaked, firstStart, cacheState, cacheDepends,
                       interrupted>>
    BY DEF ProcessDomains
  <1>2. /\ job \in Job /\ state \in ServerState
        /\ job.listed = job.upgrade.domains
        /\ job.heard \cup job.deploying \subseteq job.listed
        /\ state \notin {"MR_OFFLINE", "MR_IDLE"}
    BY <1>1 DEF IInv, TypeOK, DetailsOfUpgrade, Watching
  <1>3. ASSUME Feedback(FALSE, state, job, <<>>, <<>>, <<>>)
        PROVE  Holds
    BY <1>2, <1>3, FeedbackEffect
  <1>4. ASSUME NEW n \in 0 .. Len(Order), NEW feeds, NEW messages,
               \/ Feedback(FALSE, state, After(n, silent), feeds, messages, <<>>)
               \/ Conclude(After(n, silent), feeds, messages)
        PROVE  Holds
    <2> DEFINE j == After(n, silent)
    <2>1. /\ j \in Job
          /\ j.upgrade = job.upgrade /\ j.cancelId = job.cancelId
          /\ j.subscribed = job.subscribed /\ j.listed = job.listed
          /\ j.heard = job.heard /\ j.deploying \subseteq job.listed
          /\ ~InDeployment => j.deploying = job.deploying
      BY AfterType
    <2>2. \/ Feedback(FALSE, state, j, feeds, messages, <<>>)
          \/ Conclude(j, feeds, messages)
      BY <1>4
    <2> HIDE DEF j
    <2>3. CASE Feedback(FALSE, state, j, feeds, messages, <<>>)
      BY <1>2, <2>1, <2>3, FeedbackEffect
    <2>4. CASE Conclude(j, feeds, messages)
      BY <1>1, <2>1, <2>4, ConcludeEffect
    <2> QED
      BY <2>2, <2>3, <2>4
  <1>5. Holds
    <2>1. CASE Feedback(FALSE, state, job, <<>>, <<>>, <<>>)
      BY <1>3, <2>1
    <2>2. CASE \E n \in 0 .. Len(Order) :
                 \/ Feedback(FALSE, state, After(n, silent), Scheduled(n, silent),
                             Resent(n, silent), <<>>)
                 \/ Conclude(After(n, silent), Scheduled(n, silent), Resent(n, silent))
      BY <1>4, <2>2
    <2> QED
      BY <2>1, <2>2 DEF ProcessDomains
  <1>6. TypeOK'
    BY <1>1, <1>5 DEF IInv, TypeOK
  <1> QED
    BY <1>5, <1>6 DEF IInv

-----------------------------------------------------------------------------
(* The theorems. *)

\* The server with clients that may report anything: what it does beside a client whose
\* reports are not constants (OtaViewer).
ReportStep ==
  \E d \in Domain, r \in DomainReport, discovery \in BOOLEAN :
    \/ ResDomain(d, r, discovery)
    \/ \E answer \in Answer : ResAnswer(d, r, discovery, answer)

AnyStep == WebStep \/ ReportStep \/ TimerStep \/ Restart

AnySpec == Init /\ [][AnyStep]_vars

\* The reports of the constants are some.
LEMMA NextIsAny == [Next]_vars => [AnyStep]_vars
  BY InputAssumption DEF Next, AnyStep, DomainStep, ReportStep

\* No step of the server, its restarts and its environment breaks the invariant.
LEMMA AnyStepIInv == IInv /\ [AnyStep]_vars => IInv'
  <1> SUFFICES ASSUME IInv, [AnyStep]_vars PROVE IInv'
    OBVIOUS
  <1>1. CASE WebStep
    <2>1. CASE state = "MR_OFFLINE" /\ ResInit
      BY <2>1, ResInitIInv
    <2>2. CASE state # "MR_OFFLINE" /\ ResError
      BY <2>2, RetryDownloadIInv, GiveUpIInv DEF ResError
    <2>3. CASE state # "MR_OFFLINE" /\ ReqIdle
      BY <2>3, ReqIdleIInv
    <2>4. CASE state # "MR_OFFLINE" /\ (ResDownloadDone \/ ResVerifyDone \/ ResDistributeDone)
      BY <2>4, PhaseDoneIInv DEF ResDownloadDone, ResVerifyDone, ResDistributeDone
    <2>5. CASE state # "MR_OFFLINE" /\ \E distributing \in BOOLEAN : ReqPull(distributing)
      BY <2>5, ReqPullIInv
    <2>6. CASE state # "MR_OFFLINE" /\ \E u \in Upgrades : ReqUpgrade(u)
      BY <2>6, ReqUpgradeIInv
    <2>7. CASE state # "MR_OFFLINE" /\ \E id \in Id : ReqCancel(id)
      BY <2>7, ReqCancelIInv
    <2> QED
      BY <1>1, <2>1, <2>2, <2>3, <2>4, <2>5, <2>6, <2>7 DEF WebStep
  <1>2. CASE ReportStep
    BY <1>2, ResDomainIInv, ResAnswerIInv DEF ReportStep
  <1>3. CASE TimerStep
    BY <1>3, ProcessDomainsIInv DEF TimerStep
  <1>4. CASE Restart
    BY <1>4, RestartIInv
  <1>5. CASE UNCHANGED vars
    <2> USE <1>5 DEF vars, bootVars, requestVars
    <2>1. TypeOK'
      BY DEF IInv, TypeOK
    <2>2. ConfirmationCanEnd' /\ ControlFitsState' /\ StatusFileCurrent'
      BY DEF IInv, ConfirmationCanEnd, ControlFitsState, StatusFileCurrent, Confirming
    <2>3. CancelUnderway' /\ SelectionFresh' /\ DetailsOfUpgrade'
      BY DEF IInv, CancelUnderway, SelectionFresh, DetailsOfUpgrade
    <2> QED
      BY <2>1, <2>2, <2>3 DEF IInv
  <1> QED
    BY <1>1, <1>2, <1>3, <1>4, <1>5 DEF AnyStep

LEMMA NextIInv == IInv /\ [Next]_vars => IInv'
  BY NextIsAny, AnyStepIInv

\* The inductive invariant holds in every reachable state.
THEOREM Invariance == Spec => []IInv
  BY InitIInv, NextIInv, PTL DEF Spec

\* Every variable of the server keeps its type (the struct server.cpp keeps it in).
THEOREM TypeCorrect == Spec => []TypeOK
  BY Invariance, PTL DEF IInv

\* A result that waits for a confirmation has been reported, is shown as what it
\* is, and can be confirmed: the server cannot be stuck in a result nobody sees.
THEOREM ConfirmationsCanEnd == Spec => []ConfirmationCanEnd
  BY Invariance, PTL DEF IInv

\* A cancellation runs only after the user agreed to it, and its answer has an id.
THEOREM CancellationsAgreed == Spec => []CancelUnderway
  BY Invariance, PTL DEF IInv

\* No upgrade starts with what an earlier one left behind.
THEOREM SelectionsFresh == Spec => []SelectionFresh
  BY Invariance, PTL DEF IInv

\* The domains that are watched are those of the upgrade at hand.
THEOREM DetailsMatch == Spec => []DetailsOfUpgrade
  BY Invariance, PTL DEF IInv

\* The control message repeated to a client that comes back fits the state.
THEOREM ControlFits == Spec => []ControlFitsState
  BY Invariance, PTL DEF IInv

-----------------------------------------------------------------------------
(***************************************************************************)
(* A deployment that the process ended in is recognised.  What the file    *)
(* says before it is read, and what was read from it afterwards, is the    *)
(* history: RInv.  Of the steps only Restart, RES_INIT and the answer to   *)
(* the question change either (Remembered is what the others do), and only *)
(* the timer callback enters a state of ResumeAsked.                       *)
(***************************************************************************)

RInv ==
  /\ state = "MR_OFFLINE" => (status.state = "MR_DEPLOY" <=> interrupted)
  /\ state # "MR_OFFLINE" => (cacheState = "MR_DEPLOY" <=> interrupted)
  /\ ResumeAsked

\* The states after the comparison, and a step that leaves the memory alone and does
\* not compare the domains.
Offering == {"MR_READY", "MR_DOWNLOAD_ASK", "MR_RESUME_ASK"}

Remembered ==
  /\ UNCHANGED <<cacheState, interrupted>>
  /\ state # "MR_OFFLINE" /\ state' # "MR_OFFLINE"
  /\ state' \notin Offering \/ UNCHANGED <<state, hasNewId>>

\* Such a step keeps the memory.
LEMMA RememberedRInv ==
  ASSUME RInv, Remembered
  PROVE  RInv'
  BY DEF RInv, Remembered, ResumeAsked, Offering

\* feedback() and idle() leave the request behind.
LEMMA AnsweredState ==
  ASSUME NEW finished, NEW from, NEW j, NEW before, NEW message, NEW after,
         \/ Feedback(finished, from, j, before, message, after)
         \/ Idle(from, j, before)
  PROVE  state' \in {"MR_DONE_ASK", "MR_ERROR_ASK", "MR_IDLE"}
  BY DEF Feedback, Idle, SetState

\* And so does a feedback that an event tries, or the state stays as it is.
LEMMA TryFeedbackState ==
  ASSUME NEW finished, NEW j, NEW message, TryFeedback(finished, j, message)
  PROVE  state' \in {"MR_DONE_ASK", "MR_ERROR_ASK", "MR_IDLE", state}
  <1>1. CASE Answered
    BY <1>1 DEF TryFeedback
  <1>2. CASE ~Answered
    BY <1>2, AnsweredState DEF TryFeedback
  <1> QED
    BY <1>1, <1>2

\* The events of the web queue after the first.
LEMMA WebRInv ==
  ASSUME IInv, RInv, WebStep
  PROVE  RInv'
  <1> USE DEF bootVars, Offering
  <1>1. CASE state = "MR_OFFLINE" /\ ResInit
    <2>1. state' = "MR_IDLE" /\ (cacheState' = "MR_DEPLOY" <=> status.state = "MR_DEPLOY")
          /\ interrupted' = interrupted
      BY <1>1 DEF ResInit, Idle, SetState
    <2> QED
      BY <1>1, <2>1 DEF RInv, ResumeAsked
  <1>2. CASE state # "MR_OFFLINE" /\ RetryDownload
    BY <1>2, RememberedRInv DEF RetryDownload, SetState, Remembered
  <1>3. CASE state # "MR_OFFLINE" /\ GiveUp
    BY <1>3, TryFeedbackState, RememberedRInv DEF GiveUp, Remembered
  <1>4. CASE state # "MR_OFFLINE" /\ ReqIdle
    BY <1>4, AnsweredState, RememberedRInv DEF ReqIdle, Remembered
  <1>5. CASE state # "MR_OFFLINE" /\ (ResDownloadDone \/ ResVerifyDone \/ ResDistributeDone)
    <2>1. state' \in {"MR_VERIFY", "MR_DISTRIBUTE", "MR_WAIT"}
          /\ UNCHANGED <<cacheState, interrupted>>
      BY <1>5 DEF ResDownloadDone, ResVerifyDone, ResDistributeDone, PhaseDone, SetState
    <2> QED
      BY <1>5, <2>1, RememberedRInv DEF Remembered
  <1>6. CASE state # "MR_OFFLINE" /\ \E distributing \in BOOLEAN : ReqPull(distributing)
    BY <1>6, RememberedRInv DEF ReqPull, SetState, Remembered
  <1>7. CASE state # "MR_OFFLINE" /\ \E u \in Upgrades : ReqUpgrade(u)
    <2>1. state' = "MR_PENDING" /\ UNCHANGED <<cacheState, interrupted>>
      BY <1>7 DEF ReqUpgrade, Pending, SetState
    <2> QED
      BY <1>7, <2>1, RememberedRInv DEF Remembered
  <1>8. CASE state # "MR_OFFLINE" /\ \E id \in Id : ReqCancel(id)
    <2>1. state' \in {"MR_DONE_ASK", "MR_ERROR_ASK", "MR_IDLE", "MR_CANCEL_ASK"}
          /\ UNCHANGED <<cacheState, interrupted>>
      BY <1>8, AnsweredState DEF ReqCancel, SetState
    <2> QED
      BY <1>8, <2>1, RememberedRInv DEF Remembered
  <1> QED
    BY <1>1, <1>2, <1>3, <1>4, <1>5, <1>6, <1>7, <1>8 DEF WebStep, ResError

\* The reports: the one with the consent takes the deployment up.
LEMMA ReportRInv ==
  ASSUME IInv, RInv, ReportStep
  PROVE  RInv'
  <1> USE DEF Offering
  <1>1. CASE \E d \in Domain, r \in DomainReport, discovery \in BOOLEAN :
               ResDomain(d, r, discovery)
    BY <1>1 DEF ResDomain, bootVars, requestVars, RInv, ResumeAsked
  <1>2. ASSUME NEW j, NEW repeated, hasNewId' = hasNewId, Accept(j, repeated)
        PROVE  RInv'
    <2>1. CASE state = "MR_RESUME_ASK" /\ Accept(j, repeated)
      <3>1. state' = "MR_DEPLOY" /\ cacheState' = "MR_UNKNOWN" /\ interrupted' = FALSE
        BY <2>1 DEF Accept, SetState, Confirming
      <3> QED
        BY <3>1 DEF RInv, ResumeAsked
    <2>2. CASE state # "MR_RESUME_ASK" /\ Accept(j, repeated)
      <3>1. state # "MR_OFFLINE" /\ UNCHANGED <<cacheState, interrupted>>
            /\ state' \in {"MR_DOWNLOAD", "MR_DEPLOY", "MR_CANCEL", "MR_IDLE"}
        BY <2>2 DEF Accept, SetState, Idle, Confirming
      <3> QED
        BY <3>1, RememberedRInv DEF Remembered
    <2> QED
      BY <1>2, <2>1, <2>2
  <1>3. ASSUME NEW j, NEW repeated, hasNewId' = hasNewId, Refuse(j, repeated)
        PROVE  RInv'
    <2>1. /\ state \in {"MR_DOWNLOAD_ASK", "MR_DEPLOY_ASK", "MR_CANCEL_ASK", "MR_RESUME_ASK"}
          /\ state' \in {"MR_DONE_ASK", "MR_ERROR_ASK", "MR_IDLE", "MR_PENDING", state}
      BY <1>3, AnsweredState, TryFeedbackState DEF Refuse, Pending, SetState
    <2>2. UNCHANGED <<cacheState, interrupted>>
      BY <1>3 DEF Refuse
    <2> QED
      BY <1>3, <2>1, <2>2, RememberedRInv DEF Remembered
  <1>4. ASSUME NEW j, NEW repeated, hasNewId' = hasNewId, OtherAnswer(j, repeated)
        PROVE  RInv'
    BY <1>4, RememberedRInv DEF OtherAnswer, Remembered
  <1>5. CASE \E d \in Domain, r \in DomainReport, discovery \in BOOLEAN, answer \in Answer :
               ResAnswer(d, r, discovery, answer)
    <2>1. PICK d \in Domain, r \in DomainReport, discovery \in BOOLEAN, answer \in Answer :
            ResAnswer(d, r, discovery, answer)
      BY <1>5
    <2> DEFINE j == Recorded(d, r)
               repeated == Repeated(d, discovery)
    <2>2. /\ hasNewId' = hasNewId
          /\ Accept(j, repeated) \/ Refuse(j, repeated) \/ OtherAnswer(j, repeated)
      BY <2>1 DEF ResAnswer
    <2> HIDE DEF j, repeated
    <2> QED
      BY <2>2, <1>2, <1>3, <1>4
  <1> QED
    BY <1>1, <1>5 DEF ReportStep

\* The timer callback asks when it has compared the domains.
LEMMA TimerRInv ==
  ASSUME IInv, RInv, TimerStep
  PROVE  RInv'
  <1>1. PICK late \in BOOLEAN, silent \in SUBSET job.heard, overdue \in SUBSET job.deploying :
          ProcessDomains(late, silent, overdue)
    BY DEF TimerStep
  <1>2. /\ state # "MR_OFFLINE"
        /\ UNCHANGED <<cacheState, interrupted, hasNewId>>
    BY <1>1 DEF ProcessDomains, Watching, bootVars
  <1>3. ASSUME NEW j, NEW before, NEW message, NEW from, NEW finished,
               Feedback(finished, from, j, before, message, <<>>)
        PROVE  RInv'
    BY <1>2, <1>3, AnsweredState, RememberedRInv DEF Remembered, Offering
  <1>4. ASSUME NEW j, NEW feeds, NEW messages, Conclude(j, feeds, messages)
        PROVE  RInv'
    <2>1. CASE state' = Released(j)
      <3>1. hasNewId => (MayResume <=> interrupted)
        BY <1>2 DEF MayResume, RInv
      <3>2. CASE Released(j) \in Offering
        <4>1. Released(j) = Selected(j)
          BY <3>2 DEF Released, Offering
        <4>2. CASE state = "MR_PENDING"
          <5>1. Selected(j) \in Offering =>
                  Selected(j) = IF MayResume THEN "MR_RESUME_ASK" ELSE "MR_READY"
            BY <4>2 DEF Selected, Selecting, Offering
          <5> QED
            BY <1>2, <2>1, <3>1, <3>2, <4>1, <5>1 DEF RInv, ResumeAsked, Offering
        <4>3. CASE state # "MR_PENDING"
          <5>1. state \in Offering /\ (Selected(j) = "MR_RESUME_ASK" <=> state = "MR_RESUME_ASK")
            BY <3>2, <4>1, <4>3 DEF Selected, Selecting, Offering
          <5> QED
            BY <1>2, <2>1, <3>2, <4>1, <5>1 DEF RInv, ResumeAsked, Offering
        <4> QED
          BY <4>2, <4>3
      <3>3. CASE Released(j) \notin Offering
        <4>1. Released(j) # "MR_OFFLINE"
          BY <1>2 DEF Released, Selected
        <4> QED
          BY <1>2, <2>1, <3>3, <4>1, RememberedRInv DEF Remembered
      <3> QED
        BY <3>2, <3>3
    <2>2. CASE state' # Released(j)
      <3>1. \E finished, from, before, message :
              Feedback(finished, from, j, before, message, <<>>)
        BY <1>4, <2>2 DEF Conclude, SetState
      <3> QED
        BY <1>3, <3>1
    <2> QED
      BY <2>1, <2>2
  <1> QED
    BY <1>1, <1>3, <1>4 DEF ProcessDomains

\* No step loses or invents an interrupted deployment.
LEMMA AnyStepRInv == IInv /\ RInv /\ [AnyStep]_vars => RInv'
  <1> SUFFICES ASSUME IInv, RInv, [AnyStep]_vars PROVE RInv'
    OBVIOUS
  <1>1. CASE Restart
    BY <1>1 DEF Restart, RInv, ResumeAsked, IInv, StatusFileCurrent
  <1>2. CASE UNCHANGED vars
    BY <1>2 DEF vars, bootVars, requestVars, RInv, ResumeAsked
  <1> QED
    BY <1>1, <1>2, WebRInv, ReportRInv, TimerRInv DEF AnyStep

\* An end of the process in a deployment leads to the question whether to resume it
\* when the domains have been found again, and nothing else does.
THEOREM ResumesAsked == Spec => []ResumeAsked
  <1>1. Init => RInv
    BY DEF Init, NoStatus, RInv, ResumeAsked
  <1>2. IInv /\ RInv /\ [Next]_vars => RInv'
    BY NextIsAny, AnyStepRInv
  <1>3. RInv => ResumeAsked
    BY DEF RInv
  <1> QED
    BY <1>1, <1>2, <1>3, Invariance, PTL DEF Spec

-----------------------------------------------------------------------------
(* What the server posts to the web queue, and that a success it reports is true. *)

WebRequest ==
  [event : {"REQ_STOP", "REQ_CHECK", "REQ_DOWNLOAD", "REQ_VERIFY", "REQ_DISTRIBUTE"}]

WebFeedback ==
  [ event : {"REQ_FEEDBACK"}, type : FeedType, id : Id \cup {NoId},
    execution : Execution, result : Result ]

\* The web events that can be posted truthfully in the current state.
TruthfulEvent == {e \in WebRequest \cup WebFeedback : Truthful(e)}

\* Requests are truthful, and so are feedbacks that do not report a final success.
LEMMA PlainEvents ==
  /\ \A r \in {"REQ_STOP", "REQ_CHECK", "REQ_DOWNLOAD", "REQ_VERIFY", "REQ_DISTRIBUTE"} :
       Request(r) \in TruthfulEvent
  /\ \A t \in FeedType, id \in Id \cup {NoId}, x \in Execution, r \in Result :
       x # "EXE_CLOSED" \/ r = "RS_FAILURE" => WebFeed(t, id, x, r) \in TruthfulEvent
  <1>1. ASSUME NEW r \in {"REQ_STOP", "REQ_CHECK", "REQ_DOWNLOAD", "REQ_VERIFY",
                          "REQ_DISTRIBUTE"}
        PROVE  Request(r) \in TruthfulEvent
    BY DEF TruthfulEvent, WebRequest, Truthful, IsClosing, Request
  <1>2. ASSUME NEW t \in FeedType, NEW id \in Id \cup {NoId}, NEW x \in Execution,
               NEW r \in Result, x # "EXE_CLOSED" \/ r = "RS_FAILURE"
        PROVE  WebFeed(t, id, x, r) \in TruthfulEvent
    <2>1. WebFeed(t, id, x, r) \in WebFeedback
      BY DEF WebFeed, WebFeedback
    <2>2. ~(IsClosing(WebFeed(t, id, x, r)) /\ WebFeed(t, id, x, r).result = "RS_SUCCESS")
      BY <1>2 DEF IsClosing, WebFeed, Result
    <2> QED
      BY <2>1, <2>2 DEF TruthfulEvent, Truthful
  <1> QED
    BY <1>1, <1>2

\* The feedback that goes with a change of the state is truthful.
LEMMA ChangedTruthful ==
  ASSUME NEW from, NEW new, NEW t \in FeedType, NEW j \in Job
  PROVE  Changed(from, new, t, j) \in Seq(TruthfulEvent)
  <1>1. j.upgrade.id \in Id \cup {NoId} /\ j.cancelId \in Id \cup {NoId}
    BY DEF Job, Upgrade, NoUpgrade
  <1>2. Proceeding(new, t, j) \in Seq(TruthfulEvent)
    BY <1>1, PlainEvents DEF Proceeding, FeedType, Execution, Result
  <1> QED
    BY <1>2 DEF Changed

\* So is all that is posted around it, if the rest is.
LEMMA SetStateTruthful ==
  ASSUME NEW from, NEW new, NEW before \in Seq(TruthfulEvent), NEW after \in Seq(TruthfulEvent),
         job' \in Job, type' \in FeedType,
         SetState(from, new, before, after)
  PROVE  posted' \in Seq(TruthfulEvent)
  <1>1. Changed(from, new, type', job') \in Seq(TruthfulEvent)
    BY ChangedTruthful
  <1>2. posted' = before \o Changed(from, new, type', job') \o after
    BY DEF SetState
  <1> QED
    BY <1>1, <1>2, ConcatProperties

\* The events of feedback() are truthful if the success it may report is one.
LEMMA FeedbackTruthful ==
  ASSUME NEW finished \in BOOLEAN, NEW from, NEW j \in Job,
         NEW before \in Seq(TruthfulEvent), NEW message, NEW after \in Seq(TruthfulEvent),
         job' \in Job, type' \in FeedType,
         finished => Truthful(WebFeed(type', FeedId(type', j), "EXE_CLOSED", "RS_SUCCESS")),
         Feedback(finished, from, j, before, message, after)
  PROVE  posted' \in Seq(TruthfulEvent)
  <1>1. FeedId(type', j) \in Id \cup {NoId}
    BY DEF FeedId, Job, Upgrade, NoUpgrade
  <1>2. WebFeed(type', FeedId(type', j), "EXE_CLOSED",
                IF finished THEN "RS_SUCCESS" ELSE "RS_FAILURE") \in TruthfulEvent
    <2>1. CASE finished
      <3>1. WebFeed(type', FeedId(type', j), "EXE_CLOSED", "RS_SUCCESS") \in WebFeedback
        BY <1>1 DEF WebFeed, WebFeedback, Execution, Result
      <3> QED
        BY <2>1, <3>1 DEF TruthfulEvent
    <2>2. CASE ~finished
      BY <1>1, <2>2, PlainEvents DEF Execution, Result
    <2> QED
      BY <2>1, <2>2
  <1>3. Request("REQ_STOP") \in TruthfulEvent
    BY PlainEvents
  <1>4. Closing(finished, type', j) \in Seq(TruthfulEvent)
    BY <1>2, <1>3 DEF Closing
  <1>5. before \o Closing(finished, type', j) \in Seq(TruthfulEvent)
    BY <1>4, ConcatProperties
  <1>6. \E new : SetState(from, new, before \o Closing(finished, type', j), after)
    BY DEF Feedback
  <1> QED
    BY <1>5, <1>6, SetStateTruthful

\* Heartbeats that are too old change no version, and take nobody out of a
\* cancellation.
LEMMA ExpiredKeeps ==
  ASSUME IInv, NEW k, NEW silent, NEW d \in Domain
  PROVE  /\ Expired(k, silent)[d].version = job.report[d].version
         /\ Cancelled(Expired(k, silent)[d]) => Expired(k, silent)[d] = job.report[d]
  <1>1. job.report[d] \in DomainReport
    BY DEF IInv, TypeOK, Job
  <1>2. \A r \in DomainReport :
          /\ [r EXCEPT !.last = r.state, !.state = "WR_OFFLINE"].version = r.version
          /\ ~Cancelled([r EXCEPT !.last = r.state, !.state = "WR_OFFLINE"])
    BY DEF DomainReport, Cancelled
  <1>3. \/ Expired(k, silent)[d] = job.report[d]
        \/ Expired(k, silent)[d]
             = [job.report[d] EXCEPT !.last = job.report[d].state, !.state = "WR_OFFLINE"]
    BY DEF Expired
  <1> QED
    BY <1>1, <1>2, <1>3

\* What the timer posts for the domains it finds finished is truthful.
LEMMA ScheduledTruthful ==
  ASSUME IInv, NEW n \in 0 .. Len(Order), NEW silent
  PROVE  Scheduled(n, silent) \in Seq(TruthfulEvent)
  <1>1. n \in Nat
    BY DomainAssumption, LenProperties
  <1>2. IsFiniteSet(1 .. n)
    BY <1>1, FS_Interval
  <1>3. FinishedBy(n, silent) \in SUBSET (1 .. n)
    BY DEF FinishedBy
  <1>4. Cardinality(FinishedBy(n, silent)) \in Nat
    BY <1>2, <1>3, FS_Subset, FS_CardinalityType
  <1>5. job.upgrade.id \in Id \cup {NoId}
    BY DEF IInv, TypeOK, Job, Upgrade, NoUpgrade
  <1>6. WebFeed("TP_DEPLOY", job.upgrade.id, "EXE_SCHEDULED", "RS_SUCCESS") \in TruthfulEvent
    BY <1>5, PlainEvents DEF FeedType, Execution, Result
  <1> DEFINE k == Repeats(n, silent)
  <1>7. k \in Nat
    BY <1>4 DEF Repeats
  <1>8. Scheduled(n, silent)
          = [i \in 1 .. k |-> WebFeed("TP_DEPLOY", job.upgrade.id, "EXE_SCHEDULED", "RS_SUCCESS")]
    BY DEF Scheduled
  <1> HIDE DEF k
  <1> QED
    BY <1>6, <1>7, <1>8

\* A complete walk reports success only of what it has counted.
LEMMA ConcludeTruthful ==
  ASSUME IInv, Watching, type' = type, job' \in Job, NEW silent, NEW overdue, NEW messages,
         StopsAfter(Len(Order), silent, overdue),
         Conclude(After(Len(Order), silent), Scheduled(Len(Order), silent), messages)
  PROVE  posted' \in Seq(TruthfulEvent)
  <1> DEFINE n == Len(Order)
             j == After(n, silent)
             feeds == Scheduled(n, silent)
             success == WebFeed(type, FeedId(type, j), "EXE_CLOSED", "RS_SUCCESS")
  <1>1. n \in 0 .. Len(Order)
    BY DomainAssumption, LenProperties
  <1>2. /\ j \in Job
        /\ j.upgrade = job.upgrade /\ j.cancelId = job.cancelId /\ j.listed = job.listed
        /\ feeds \in Seq(TruthfulEvent)
    BY <1>1, AfterType, ScheduledTruthful
  <1>3. type' \in FeedType /\ job.listed \subseteq Domain
    BY DEF IInv, TypeOK, Job
  <1>4. j.report = Expired(n + 1, silent)
    BY DEF After, IInv, TypeOK, Job
  <1>5. ASSUME NEW d \in job.listed, state = "MR_CANCEL"
        PROVE  ~detectVersionEqual(job.report[d])
    <2>1. PICK i \in DOMAIN Order : Order[i] = d
      BY <1>3, <1>5, DomainAssumption
    <2>2. i \in 1 .. n
      BY DomainAssumption, LenProperties
    <2>3. ~Rejected(Order[i], Expired(i, silent)[Order[i]], overdue)
      BY <2>1, <2>2 DEF StopsAfter
    <2>4. ~detectVersionEqual(Expired(i, silent)[d])
      BY <1>5, <2>1, <2>3 DEF Rejected
    <2> QED
      BY <1>3, <2>4, ExpiredKeeps DEF detectVersionEqual
  <1>6. AllEqual(j) => AllEqual(job)
    BY <1>2, <1>3, <1>4, ExpiredKeeps DEF AllEqual, detectVersionEqual
  <1>7. AllEqual(j) => Truthful(success)
    <2>1. AllEqual(job) => state # "MR_CANCEL"
      BY <1>5 DEF AllEqual
    <2> QED
      BY <1>2, <1>6, <2>1 DEF Truthful, WebFeed, IsClosing, FeedId
  <1>8. state = "MR_CANCEL" /\ AllCancelled(j) => Truthful(success)
    <2>1. state = "MR_CANCEL" => type = "TP_CANCEL"
      BY DEF IInv, CancelUnderway
    <2>2. AllCancelled(j) => \A d \in job.listed : Cancelled(job.report[d])
      BY <1>2, <1>3, <1>4, ExpiredKeeps DEF AllCancelled
    <2> QED
      BY <1>5, <2>1, <2>2 DEF Truthful, WebFeed, IsClosing
  <1>9. ASSUME NEW new PROVE feeds \o Changed(state, new, type', j) \in Seq(TruthfulEvent)
    BY <1>2, <1>3, ChangedTruthful, ConcatProperties
  <1>10. ASSUME NEW new PROVE Demand(new) \in Seq(TruthfulEvent)
    BY PlainEvents DEF Demand
  <1>11. ASSUME NEW new
         PROVE feeds \o Changed(state, new, type', j) \o Demand(new) \in Seq(TruthfulEvent)
    BY <1>9, <1>10, ConcatProperties
  <1>12. <<>> \in Seq(TruthfulEvent)
    OBVIOUS
  <1>13. Conclude(j, feeds, messages)
    OBVIOUS
  <1> HIDE DEF j, n, feeds
  <1>14. CASE /\ AllEqual(j)
              /\ Feedback(TRUE, Selected(j), j,
                          feeds \o Changed(state, Selected(j), type', j), messages, <<>>)
    BY <1>2, <1>3, <1>7, <1>9, <1>12, <1>14, FeedbackTruthful
  <1>15. CASE /\ state = "MR_CANCEL" /\ AllCancelled(j)
              /\ Feedback(TRUE, state, j, feeds, messages, <<>>)
    BY <1>2, <1>3, <1>8, <1>12, <1>15, FeedbackTruthful
  <1>16. CASE \E message : Feedback(FALSE, Released(j), j,
                feeds \o Changed(state, Released(j), type', j) \o Demand(Released(j)),
                message, <<>>)
    BY <1>2, <1>3, <1>11, <1>12, <1>16, FeedbackTruthful
  <1>17. CASE SetState(state, Released(j), feeds, Demand(Released(j)))
    BY <1>2, <1>3, <1>10, <1>17, SetStateTruthful
  <1> QED
    BY <1>13, <1>14, <1>15, <1>16, <1>17 DEF Conclude

\* Whatever the step, its posted events are truthful in the state it starts from.
LEMMA AnyStepTruthful ==
  ASSUME IInv, IInv', AnyStep
  PROVE  posted' \in Seq(TruthfulEvent)
  <1>1. /\ job' \in Job /\ type' \in FeedType
        /\ job \in Job /\ type \in FeedType /\ state \in ServerState
    BY DEF IInv, TypeOK
  <1>2. <<>> \in Seq(TruthfulEvent)
    OBVIOUS
  <1>3. ASSUME NEW r \in {"REQ_STOP", "REQ_CHECK", "REQ_DOWNLOAD", "REQ_VERIFY",
                          "REQ_DISTRIBUTE"}
        PROVE  << Request(r) >> \in Seq(TruthfulEvent)
    BY PlainEvents
  <1>4. ASSUME NEW j \in Job, NEW message, TryFeedback(FALSE, j, message)
        PROVE  posted' \in Seq(TruthfulEvent)
    BY <1>1, <1>2, <1>4, FeedbackTruthful DEF TryFeedback
  <1>5. ASSUME NEW j, Idle(state, j, <<>>) PROVE posted' \in Seq(TruthfulEvent)
    BY <1>1, <1>2, <1>5, SetStateTruthful DEF Idle
  <1>6. ASSUME NEW u, NEW j, NEW message, Pending(u, j, message)
        PROVE  posted' \in Seq(TruthfulEvent)
    BY <1>1, <1>2, <1>6, SetStateTruthful DEF Pending
  <1>7. CASE RetryDownload
    BY <1>1, <1>3, <1>7, SetStateTruthful DEF RetryDownload
  <1>8. CASE GiveUp
    BY <1>1, <1>4, <1>8 DEF GiveUp
  <1>9. CASE ReqIdle \/ ResInit
    BY <1>5, <1>9 DEF ReqIdle, ResInit
  <1>10. CASE ResDownloadDone \/ ResVerifyDone \/ ResDistributeDone
    BY <1>1, <1>2, <1>3, <1>10, SetStateTruthful
    DEF ResDownloadDone, ResVerifyDone, ResDistributeDone, PhaseDone
  <1>11. CASE \E distributing \in BOOLEAN : ReqPull(distributing)
    BY <1>1, <1>2, <1>11, SetStateTruthful DEF ReqPull
  <1>12. CASE \E u \in Upgrades : ReqUpgrade(u)
    BY <1>6, <1>12 DEF ReqUpgrade
  <1>13. ASSUME NEW id \in Id, ReqCancel(id) PROVE posted' \in Seq(TruthfulEvent)
    <2> DEFINE j == [job EXCEPT !.cancelId = id]
               refusal == << WebFeed("TP_DEPLOY", job'.cancelId, "EXE_CLOSED", "RS_FAILURE") >>
    <2>1. j \in Job /\ type' = "TP_CANCEL"
      BY <1>1, <1>13 DEF Job, ReqCancel
    <2>2. refusal \in Seq(TruthfulEvent)
      <3>1. job'.cancelId \in Id \cup {NoId}
        BY <1>1 DEF Job
      <3> QED
        BY <3>1, PlainEvents DEF FeedType, Execution, Result
    <2>3. \/ state # "MR_CANCEL" /\ Feedback(TRUE, state, j, <<>>, <<>>, <<>>)
          \/ Feedback(FALSE, state, j, <<>>, <<>>, refusal)
          \/ SetState(state, "MR_CANCEL_ASK", <<>>, <<>>)
      BY <1>13 DEF ReqCancel, mrStateIsAsk
    <2>4. state # "MR_CANCEL" =>
            Truthful(WebFeed(type', FeedId(type', j), "EXE_CLOSED", "RS_SUCCESS"))
      BY <2>1 DEF Truthful, WebFeed, IsClosing
    <2> HIDE DEF j, refusal
    <2> QED
      BY <1>1, <1>2, <2>1, <2>2, <2>3, <2>4, FeedbackTruthful, SetStateTruthful
  <1>14. ASSUME NEW d \in Domain, NEW r \in DomainReport, NEW discovery \in BOOLEAN,
                \/ ResDomain(d, r, discovery)
                \/ \E answer \in Answer : ResAnswer(d, r, discovery, answer)
         PROVE  posted' \in Seq(TruthfulEvent)
    <2> DEFINE j == Recorded(d, r)
               repeated == Repeated(d, discovery)
    <2>1. j \in Job
      BY RecordedType
    <2>2. CASE ResDomain(d, r, discovery)
      BY <1>2, <2>2 DEF ResDomain
    <2>3. CASE \E answer \in Answer : ResAnswer(d, r, discovery, answer)
      <3>1. Accept(j, repeated) \/ Refuse(j, repeated) \/ OtherAnswer(j, repeated)
        BY <2>3 DEF ResAnswer
      <3> HIDE DEF j, repeated
      <3>2. CASE Accept(j, repeated)
        BY <1>1, <1>2, <1>3, <1>5, <3>2, SetStateTruthful DEF Accept
      <3>3. CASE Refuse(j, repeated)
        BY <1>4, <1>5, <1>6, <2>1, <3>3 DEF Refuse
      <3>4. CASE OtherAnswer(j, repeated)
        BY <1>2, <3>4 DEF OtherAnswer
      <3> QED
        BY <3>1, <3>2, <3>3, <3>4
    <2> QED
      BY <1>14, <2>2, <2>3
  <1>15. ASSUME NEW late \in BOOLEAN, NEW silent, NEW overdue,
                ProcessDomains(late, silent, overdue)
         PROVE  posted' \in Seq(TruthfulEvent)
    <2>1. Watching /\ type' = type
      BY <1>15 DEF ProcessDomains
    <2>2. CASE Feedback(FALSE, state, job, <<>>, <<>>, <<>>)
      BY <1>1, <1>2, <2>2, FeedbackTruthful
    <2>3. ASSUME NEW n \in 0 .. Len(Order), NEW messages,
                 Feedback(FALSE, state, After(n, silent), Scheduled(n, silent), messages, <<>>)
          PROVE  posted' \in Seq(TruthfulEvent)
      BY <1>1, <1>2, <2>3, AfterType, ScheduledTruthful, FeedbackTruthful
    <2>4. ASSUME NEW messages, StopsAfter(Len(Order), silent, overdue),
                 Conclude(After(Len(Order), silent), Scheduled(Len(Order), silent), messages)
          PROVE  posted' \in Seq(TruthfulEvent)
      BY <1>1, <2>1, <2>4, ConcludeTruthful
    <2> QED
      BY <1>15, <2>2, <2>3, <2>4 DEF ProcessDomains
  <1>16. CASE Restart
    BY <1>2, <1>16 DEF Restart
  <1> QED
    BY <1>7, <1>8, <1>9, <1>10, <1>11, <1>12, <1>13, <1>14, <1>15, <1>16
    DEF AnyStep, WebStep, ResError, ReportStep, TimerStep

LEMMA NextTruthful ==
  ASSUME IInv, IInv', Next
  PROVE  posted' \in Seq(TruthfulEvent)
  BY InputAssumption, AnyStepTruthful DEF Next, AnyStep, DomainStep, ReportStep

LEMMA TruthfulStep ==
  IInv /\ IInv' /\ [AnyStep]_vars => [\A i \in DOMAIN posted' : Truthful(posted'[i])]_vars
  <1> SUFFICES ASSUME IInv, IInv', AnyStep, NEW i \in DOMAIN posted'
               PROVE  Truthful(posted'[i])
    OBVIOUS
  <1>1. posted' \in Seq(TruthfulEvent)
    BY AnyStepTruthful
  <1>2. posted'[i] \in TruthfulEvent
    BY <1>1
  <1> QED
    BY <1>2 DEF TruthfulEvent

\* The backend is told of a success only if it is one: of the upgrade at hand when
\* every domain has the new version, of a cancellation that ran when every domain
\* has left the deployment with the old one.
THEOREM SuccessesTrue == Spec => SuccessIsTrue
  <1>1. IInv /\ IInv' /\ [Next]_vars => [\A i \in DOMAIN posted' : Truthful(posted'[i])]_vars
    BY NextIsAny, TruthfulStep
  <1> QED
    BY <1>1, Invariance, PTL DEF SuccessIsTrue, Spec

\* Both hold whatever the clients report: nothing in them rests on honest reports.
THEOREM WhateverReported == AnySpec => []IInv /\ SuccessIsTrue
  <1>1. AnySpec => []IInv
    BY InitIInv, AnyStepIInv, PTL DEF AnySpec
  <1> QED
    BY <1>1, TruthfulStep, PTL DEF SuccessIsTrue, AnySpec

=============================================================================
