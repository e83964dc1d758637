-------------------------- MODULE OtaSystemProofs ---------------------------
(***************************************************************************)
(* Proofs about the server beside the others: in the vehicle (OtaSystem)   *)
(* and beside the viewer (OtaViewer), for every set of domains, upgrades   *)
(* and reports, and for any number of faults and of messages under way.    *)
(*                                                                         *)
(* In the vehicle, a client and its reports stay well formed whatever it   *)
(* is told (ShapeInv), so that a step of the vehicle is one of a server    *)
(* whose clients may report anything (VehicleServer), and the invariants   *)
(* of OtaServer hold here.  The messages of such a server are those of the *)
(* protocol (MessagesInv), so that a step of the vehicle is also one of    *)
(* clients that may be told anything of it (VehicleClients).               *)
(*                                                                         *)
(* The server beside the viewer is that of OtaServer, too (ServerKept).    *)
(* What the window shows follows from two chains: the last detail under    *)
(* way tells the state of the server (Told), and every call tells whether  *)
(* its state is another than that of the call before, down to the state    *)
(* that the window shows (Chain).                                          *)
(***************************************************************************)
EXTENDS OtaSystem, OtaViewer, OtaServerProofs

-----------------------------------------------------------------------------
(* What a client reports of itself, whatever it is told. *)

\* A queue whose answers are answers, and a sequence of reports.
GoodQueue(q) ==
  \E S : q \in Seq(S) /\ \A e \in S : e.event = "RES_ANSWER" => e.answer \in Answer

IsReport(m) ==
  /\ m.state \in ClientState /\ m.last \in ClientState
  /\ m.error \in BOOLEAN /\ m.discovery \in BOOLEAN /\ m.answer \in Answer
GoodReports(q) == \E S : q \in Seq(S) /\ \A m \in S : IsReport(m)

\* What the reports of client c are made of.
Shaped(c) ==
  /\ {"state", "last", "error", "needDiscovery", "queue"} \subseteq DOMAIN c
  /\ c.state \in ClientState /\ c.last \in ClientState
  /\ c.error \in BOOLEAN /\ c.needDiscovery \in BOOLEAN
  /\ GoodQueue(c.queue)

\* Posting an event that is a good one, and taking the first, leave a good queue.
LEMMA QueueAppend ==
  ASSUME NEW q, GoodQueue(q), NEW e, e.event = "RES_ANSWER" => e.answer \in Answer
  PROVE  GoodQueue(Append(q, e))
  <1>1. PICK S : q \in Seq(S) /\ \A x \in S : x.event = "RES_ANSWER" => x.answer \in Answer
    BY DEF GoodQueue
  <1>2. q \in Seq(S \cup {e})
    BY <1>1
  <1>3. Append(q, e) \in Seq(S \cup {e})
    BY <1>2, AppendProperties
  <1> QED
    BY <1>1, <1>3 DEF GoodQueue

LEMMA QueueTail ==
  ASSUME NEW q, GoodQueue(q), q # <<>>
  PROVE  /\ GoodQueue(Tail(q))
         /\ Head(q).event = "RES_ANSWER" => Head(q).answer \in Answer
  <1>1. PICK S : q \in Seq(S) /\ \A x \in S : x.event = "RES_ANSWER" => x.answer \in Answer
    BY DEF GoodQueue
  <1>2. Tail(q) \in Seq(S) /\ Head(q) \in S
    BY <1>1, HeadTailProperties
  <1> QED
    BY <1>1, <1>2 DEF GoodQueue

\* Sequences of reports: none and one, two of them joined, the first taken.
LEMMA FewReports ==
  GoodReports(<<>>) /\ \A m : IsReport(m) => GoodReports(<<m>>)
  <1>1. ASSUME NEW S, NEW q \in Seq(S), \A m \in S : IsReport(m)
        PROVE  GoodReports(q)
    BY <1>1 DEF GoodReports
  <1>2. GoodReports(<<>>)
    <2> DEFINE S == {}  q == <<>>
    <2>1. q \in Seq(S) /\ \A m \in S : IsReport(m)
      OBVIOUS
    <2> HIDE DEF S, q
    <2>2. GoodReports(q)
      BY <1>1, <2>1
    <2> QED
      BY <2>2 DEF q
  <1>3. ASSUME NEW m, IsReport(m) PROVE GoodReports(<<m>>)
    <2> DEFINE S == {m}  q == <<m>>
    <2>1. q \in Seq(S) /\ \A x \in S : IsReport(x)
      BY <1>3
    <2> HIDE DEF S, q
    <2>2. GoodReports(q)
      BY <1>1, <2>1
    <2> QED
      BY <2>2 DEF q
  <1> QED
    BY <1>2, <1>3

LEMMA ReportsConcat ==
  ASSUME NEW p, NEW q, GoodReports(p), GoodReports(q) PROVE GoodReports(p \o q)
  <1>1. PICK S : p \in Seq(S) /\ \A m \in S : IsReport(m)
    BY DEF GoodReports
  <1>2. PICK T : q \in Seq(T) /\ \A m \in T : IsReport(m)
    BY DEF GoodReports
  <1>3. p \in Seq(S \cup T) /\ q \in Seq(S \cup T)
    BY <1>1, <1>2
  <1>4. p \o q \in Seq(S \cup T)
    BY <1>3, ConcatProperties
  <1> QED
    BY <1>1, <1>2, <1>4 DEF GoodReports

LEMMA ReportsTail ==
  ASSUME NEW q, GoodReports(q), q # <<>> PROVE GoodReports(Tail(q)) /\ IsReport(Head(q))
  <1>1. PICK S : q \in Seq(S) /\ \A m \in S : IsReport(m)
    BY DEF GoodReports
  <1>2. Tail(q) \in Seq(S) /\ Head(q) \in S
    BY <1>1, HeadTailProperties
  <1> QED
    BY <1>1, <1>2 DEF GoodReports

\* What the worker and its end make of a client: the state moves, an event is posted, a
\* place on the disk changes (workThread, stopThread, hasCancelAction).
LEMMA MovedShaped ==
  ASSUME NEW c, Shaped(c), NEW s \in ClientState PROVE Shaped(C!Moved(c, s))
  BY DEF Shaped, C!Moved

LEMMA PostedShaped ==
  ASSUME NEW c, Shaped(c), NEW e, e # "RES_ANSWER" PROVE Shaped(C!Posted(c, e))
  <1>1. GoodQueue(Append(c.queue, [event |-> e]))
    BY QueueAppend DEF Shaped
  <1> QED
    BY <1>1 DEF Shaped, C!Posted

LEMMA WorkerShaped ==
  ASSUME NEW c, Shaped(c), NEW y
  PROVE  Shaped(C!Ended(c)) /\ Shaped(C!Stored(c, y)) /\ Shaped(C!Started(c, y))
  BY DEF Shaped, C!Ended, C!Stored, C!Started

LEMMA GivesUpShaped ==
  ASSUME NEW c, Shaped(c), NEW x \in C!GivesUp(c) PROVE Shaped(x)
  <1>1. x = C!Ended(c) \/ \E y : x = C!Ended(C!Stored(c, y))
    BY DEF C!GivesUp
  <1> QED
    BY <1>1, WorkerShaped

LEMMA WorkEndsShaped ==
  ASSUME NEW c, Shaped(c), NEW x \in C!WorkEnds(c) PROVE Shaped(x)
  <1>1. ASSUME NEW e, e # "RES_ANSWER" PROVE Shaped(C!Posted(C!Ended(c), e))
    BY <1>1, WorkerShaped, PostedShaped
  <1>2. ASSUME NEW y, NEW e, e # "RES_ANSWER"
        PROVE  Shaped(C!Posted(C!Ended(C!Stored(c, y)), e))
    BY <1>2, WorkerShaped, PostedShaped
  <1>3. CASE x \in C!Succeeds(c)
    <2>1. \/ x = C!Posted(C!Ended(C!Stored(c, "full")), "RES_DOWNLOAD")
          \/ x = C!Posted(C!Ended(c), "RES_VERIFY")
          \/ \E p, y : /\ \E e \in {"RES_PATCH", "RES_DEPLOY_DONE"} :
                             p = C!Posted(C!Ended(c), e)
                       /\ \/ x = [p EXCEPT !.patchNewFiles = y]
                          \/ x = [p EXCEPT !.installed = y]
      BY <1>3 DEF C!Succeeds
    <2>2. ASSUME NEW e \in {"RES_PATCH", "RES_DEPLOY_DONE"}
          PROVE  Shaped(C!Posted(C!Ended(c), e))
      BY <1>1
    <2>3. ASSUME NEW p, Shaped(p), NEW y,
                 x = [p EXCEPT !.patchNewFiles = y] \/ x = [p EXCEPT !.installed = y]
          PROVE  Shaped(x)
      BY <2>3 DEF Shaped
    <2> QED
      BY <1>1, <1>2, <2>1, <2>2, <2>3
  <1>4. CASE x \in C!Fails(c) \cup C!Cancels(c)
    <2>1. \E y \in C!GivesUp(c) : \E e \in {"RES_ERROR", "RES_CANCEL_DONE"} :
            x = C!Posted(y, e)
      BY <1>4 DEF C!Fails, C!Cancels
    <2> QED
      BY <2>1, GivesUpShaped, PostedShaped
  <1>5. CASE x \in C!Unheeded(c)
    <2>1. x = C!Ended(c) \/ x = [C!Ended(c) EXCEPT !.installed = VersionOf[c.place[2]]]
      BY <1>5 DEF C!Unheeded
    <2>2. Shaped(C!Ended(c))
      BY WorkerShaped
    <2> QED
      BY <2>1, <2>2 DEF Shaped
  <1> QED
    BY <1>3, <1>4, <1>5 DEF C!WorkEnds

LEMMA StopThreadShaped ==
  ASSUME NEW c, Shaped(c), NEW x \in C!StopThread(c) PROVE Shaped(x)
  <1>1. x = c \/ x \in C!WorkEnds(c) \/ x \in C!GivesUp(c)
    BY DEF C!StopThread
  <1> QED
    BY <1>1, WorkEndsShaped, GivesUpShaped

LEMMA CancelActionShaped ==
  ASSUME NEW c, Shaped(c), NEW on, NEW x \in C!CancelAction(c, on) PROVE Shaped(x)
  <1> DEFINE y == [c EXCEPT !.hasCancelAction = on]
  <1>1. Shaped(y)
    BY DEF Shaped
  <1>2. x = y \/ \E z \in C!GivesUp(y) : x = [z EXCEPT !.quit = TRUE]
    BY DEF C!CancelAction
  <1> HIDE DEF y
  <1>3. \A z \in C!GivesUp(y) : Shaped(z)
    BY <1>1, GivesUpShaped
  <1> QED
    BY <1>1, <1>2, <1>3 DEF Shaped

\* A handler begins with the client without its first event.
LEMMA TakenShaped ==
  ASSUME NEW d, Shaped(client[d]), client[d].queue # <<>>
  PROVE  Shaped(C!Rest(d)) /\ Shaped(C!Controlled(d))
  <1> DEFINE c == client[d]
             m == Head(c.queue).message
  <1>1. Shaped(c) /\ GoodQueue(Tail(c.queue))
    BY QueueTail DEF Shaped
  <1>2. C!Rest(d) = [c EXCEPT !.queue = Tail(c.queue)]
    BY DEF C!Rest
  <1>3. \E p : C!Controlled(d) = [C!Rest(d) EXCEPT !.id = m.id, !.package = p]
    BY DEF C!Controlled
  <1> HIDE DEF c, m
  <1>4. Shaped(C!Rest(d))
    BY <1>1, <1>2 DEF Shaped
  <1> QED
    BY <1>3, <1>4 DEF Shaped

\* The clients and their reports are well formed.
Clients ==
  /\ client = [d \in Domain |-> client[d]]
  /\ \A d \in Domain : Shaped(client[d])

\* A handler that makes a client of c says what c is.
LEMMA SendShaped ==
  ASSUME Clients, NEW d \in Domain, NEW c, Shaped(c), NEW answer \in Answer,
         C!SendAnswer(d, c, answer)
  PROVE  Clients' /\ GoodReports(reported')
  <1> DEFINE made == [c EXCEPT !.needDiscovery = FALSE]
             lost == [c EXCEPT !.needDiscovery = TRUE, !.messageId = 0,
                               !.serverState = IF d \in Watcher THEN "MR_OFFLINE" ELSE @]
             report == C!Reported(d, c, answer)
  <1>1. Shaped(made) /\ Shaped(lost)
    BY DEF Shaped
  <1>2. IsReport(report)
    BY DEF Shaped, IsReport, C!Reported, Answer
  <1>3. /\ client' = [client EXCEPT ![d] = made] \/ client' = [client EXCEPT ![d] = lost]
        /\ reported' = <<report>> \/ reported' = <<>>
    BY DEF C!SendAnswer
  <1> HIDE DEF made, lost, report
  <1>4. GoodReports(<<report>>) /\ GoodReports(<<>>)
    BY <1>2, FewReports
  <1>5. Clients'
    BY <1>1, <1>3 DEF Clients
  <1> QED
    BY <1>3, <1>4, <1>5

\* A handler that sends nothing.
LEMMA QuietShaped ==
  ASSUME Clients, NEW d \in Domain, NEW c, Shaped(c), C!Quiet(d, c)
  PROVE  Clients' /\ GoodReports(reported')
  BY FewReports DEF Clients, C!Quiet

\* The handlers of a client leave it well formed, and so does all that happens beside.
LEMMA HandleShaped ==
  ASSUME Clients, NEW d \in Domain, C!Handle(d)
  PROVE  Clients' /\ GoodReports(reported')
  <1> DEFINE Good == Clients' /\ GoodReports(reported')
  <1>1. ASSUME NEW c, Shaped(c), C!SendDomainMessage(d, c) PROVE Good
    BY <1>1, SendShaped DEF C!SendDomainMessage, Answer
  <1>2. ASSUME NEW c, Shaped(c), NEW s \in C!StopThread(c), NEW y
        PROVE  Shaped(s) /\ Shaped(C!Started(s, y))
    BY <1>2, StopThreadShaped, WorkerShaped
  <1>3. ASSUME NEW c, Shaped(c), NEW y
        PROVE  /\ y \in BOOLEAN => Shaped([c EXCEPT !.error = y])
               /\ Shaped([c EXCEPT !.patchNewFiles = y]) /\ Shaped([c EXCEPT !.version = y])
    BY <1>3 DEF Shaped
  <1>4. ASSUME NEW event, C!FirstIs(d, event)
        PROVE  /\ client[d].queue # <<>> /\ Head(client[d].queue).event = event
               /\ Shaped(client[d]) /\ Shaped(C!Rest(d)) /\ Shaped(C!Controlled(d))
    BY <1>4, TakenShaped DEF Clients, C!FirstIs
  <1>5. ASSUME NEW m, C!IsControl(d, m), NEW on,
               NEW c \in C!CancelAction(C!Controlled(d), on)
        PROVE  Shaped(c) /\ c.state \in ClientState
    <2>1. Shaped(C!Controlled(d))
      BY <1>4, <1>5 DEF C!IsControl
    <2>2. Shaped(c)
      BY <1>5, <2>1, CancelActionShaped
    <2> QED
      BY <2>2 DEF Shaped
  <1>6. {"WR_DOWNLOAD", "WR_VERIFY", "WR_PATCH", "WR_WAIT", "WR_DEPLOY", "WR_IDLE",
         "WR_CANCEL", "WR_ERROR"} \subseteq ClientState
    BY DEF ClientState
  <1>7. CASE C!CtlReset(d)
    <2>1. PICK c \in C!CancelAction(C!Controlled(d), FALSE) :
            C!SendDomainMessage(
              d, C!Moved([c EXCEPT !.error = FALSE],
                         IF c.state = "WR_OFFLINE" THEN "WR_IDLE" ELSE c.state))
      BY <1>7 DEF C!CtlReset
    <2>2. Shaped(c) /\ c.state \in ClientState
      BY <1>5, <1>7 DEF C!CtlReset
    <2>3. Shaped([c EXCEPT !.error = FALSE])
      BY <2>2, <1>3
    <2> QED
      BY <1>1, <1>6, <2>1, <2>2, <2>3, MovedShaped
  <1>8. CASE C!CtlDownload(d)
    <2>1. PICK c \in C!CancelAction(C!Controlled(d), FALSE) :
            \/ C!SendDomainMessage(d, c)
            \/ \E s \in C!StopThread(C!Moved([c EXCEPT !.error = FALSE], "WR_DOWNLOAD")) :
                 C!SendDomainMessage(d, C!Started(s, "download"))
      BY <1>8 DEF C!CtlDownload
    <2>2. Shaped(c)
      BY <1>5, <1>8 DEF C!CtlDownload
    <2>3. Shaped(C!Moved([c EXCEPT !.error = FALSE], "WR_DOWNLOAD"))
      BY <2>2, <1>3, <1>6, MovedShaped
    <2> QED
      BY <1>1, <1>2, <2>1, <2>2, <2>3
  <1>9. CASE C!CtlDeploy(d)
    <2> DEFINE waiting(c) == IF c.state = "WR_IDLE" THEN C!Moved(c, "WR_WAIT") ELSE c
    <2>1. PICK c \in C!CancelAction(C!Controlled(d), FALSE) :
            \/ C!SendDomainMessage(d, c)
            \/ C!SendDomainMessage(d, waiting(c))
            \/ \E s \in C!StopThread(C!Moved([waiting(c) EXCEPT !.error = FALSE],
                                             "WR_DEPLOY")) :
                 C!SendDomainMessage(d, C!Deployed(s))
      BY <1>9 DEF C!CtlDeploy
    <2>2. Shaped(c)
      BY <1>5, <1>9 DEF C!CtlDeploy
    <2>3. Shaped(waiting(c))
      BY <2>2, <1>6, MovedShaped
    <2> HIDE DEF waiting
    <2>4. Shaped(C!Moved([waiting(c) EXCEPT !.error = FALSE], "WR_DEPLOY"))
      BY <2>3, <1>3, <1>6, MovedShaped
    <2>5. ASSUME NEW s, Shaped(s) PROVE Shaped(C!Deployed(s))
      BY <2>5, PostedShaped, WorkerShaped DEF C!Deployed
    <2> QED
      BY <1>1, <1>2, <2>1, <2>2, <2>3, <2>4, <2>5
  <1>10. CASE C!CtlCancel(d)
    <2>1. PICK c \in C!CancelAction(C!Controlled(d), TRUE) :
            \/ C!SendDomainMessage(d, c)
            \/ C!SendDomainMessage(d, C!CancelAnswered(d,
                                         C!Moved([c EXCEPT !.error = FALSE], "WR_CANCEL")))
      BY <1>10 DEF C!CtlCancel
    <2>2. Shaped(c)
      BY <1>5, <1>10 DEF C!CtlCancel
    <2>3. Shaped(C!Moved([c EXCEPT !.error = FALSE], "WR_CANCEL"))
      BY <2>2, <1>3, <1>6, MovedShaped
    <2>4. ASSUME NEW s, Shaped(s) PROVE Shaped(C!CancelAnswered(d, s))
      <3>1. C!CancelAnswered(d, s)
              \in {s, C!Posted(s, "RES_ERROR"), C!Posted(s, "RES_CANCEL_DONE")}
        BY DEF C!CancelAnswered
      <3> QED
        BY <2>4, <3>1, PostedShaped
    <2> QED
      BY <1>1, <2>1, <2>2, <2>3, <2>4
  <1>11. CASE C!CtlClear(d)
    <2>1. PICK c \in C!CancelAction(C!Controlled(d), FALSE) : \E s \in C!StopThread(c) :
            C!SendDomainMessage(d, C!Moved(s, "WR_IDLE"))
      BY <1>11 DEF C!CtlClear
    <2>2. Shaped(c)
      BY <1>5, <1>11 DEF C!CtlClear
    <2> QED
      BY <1>1, <1>2, <1>6, <2>1, <2>2, MovedShaped
  <1>12. CASE C!ReqDetail(d)
    <2>1. \E s : C!Quiet(d, [C!Rest(d) EXCEPT !.serverState = s])
      BY <1>12 DEF C!ReqDetail
    <2>2. Shaped(C!Rest(d))
      BY <1>4, <1>12 DEF C!ReqDetail
    <2>3. \A s : Shaped([C!Rest(d) EXCEPT !.serverState = s])
      BY <2>2 DEF Shaped
    <2> QED
      BY <2>1, <2>3, QuietShaped
  <1>13. CASE C!ResError(d)
    <2>1. \E error \in BOOLEAN :
            C!SendDomainMessage(d, [C!Moved(C!Rest(d), "WR_ERROR") EXCEPT !.error = error])
      BY <1>13 DEF C!ResError
    <2>2. Shaped(C!Moved(C!Rest(d), "WR_ERROR"))
      BY <1>4, <1>6, <1>13, MovedShaped DEF C!ResError
    <2> QED
      BY <1>1, <1>3, <2>1, <2>2
  <1>14. CASE C!ResDownload(d)
    <2>1. Shaped(C!Moved(C!Rest(d), "WR_VERIFY"))
      BY <1>4, <1>6, <1>14, MovedShaped DEF C!ResDownload
    <2> QED
      BY <1>1, <1>2, <1>14, <2>1 DEF C!ResDownload
  <1>15. CASE C!ResVerify(d)
    <2>1. Shaped(C!Rest(d))
      BY <1>4, <1>15 DEF C!ResVerify
    <2>2. /\ Shaped(C!Moved([C!Rest(d) EXCEPT !.patchNewFiles = FALSE], "WR_WAIT"))
          /\ Shaped(C!Moved(C!Rest(d), "WR_PATCH"))
      BY <1>3, <1>6, <2>1, MovedShaped
    <2> QED
      BY <1>1, <1>2, <1>15, <2>2 DEF C!ResVerify
  <1>16. CASE C!ResAnswer(d)
    <2>1. /\ C!FirstIs(d, "RES_ANSWER")
          /\ C!SendAnswer(d, C!Rest(d), Head(client[d].queue).answer)
      BY <1>16 DEF C!ResAnswer
    <2>2. Shaped(C!Rest(d)) /\ Head(client[d].queue).answer \in Answer
      BY <1>4, <2>1, QueueTail DEF Shaped
    <2> QED
      BY <2>1, <2>2, SendShaped
  <1>17. CASE C!ResDeployDone(d)
    <2>1. \E v :
            C!SendDomainMessage(d, [C!Moved(C!Rest(d), "WR_IDLE") EXCEPT !.version = v])
      BY <1>17 DEF C!ResDeployDone
    <2>2. Shaped(C!Moved(C!Rest(d), "WR_IDLE"))
      BY <1>4, <1>6, <1>17, MovedShaped DEF C!ResDeployDone
    <2> QED
      BY <1>1, <1>3, <2>1, <2>2
  <1>18. CASE C!ResCancelDone(d)
    <2>1. Shaped(C!Moved(C!Rest(d), "WR_IDLE"))
      BY <1>4, <1>6, <1>18, MovedShaped DEF C!ResCancelDone
    <2> QED
      BY <1>1, <1>18, <2>1 DEF C!ResCancelDone
  <1> QED
    BY <1>7, <1>8, <1>9, <1>10, <1>11, <1>12, <1>13, <1>14, <1>15, <1>16, <1>17, <1>18
    DEF C!Handle

\* So do the worker, the heartbeat, a restart, and what arrives.
LEMMA BesideShaped ==
  ASSUME Clients, NEW d \in Domain,
         \/ C!WorkerStep(d) \/ C!Heartbeat(d) \/ C!Restart(d)
         \/ \E m, n : C!ProcessControlMessage(d, m, n)
         \/ \E shown : C!ProcessDetailMessage(d, shown)
         \/ \E answer \in Answer : C!PostDetailAnswer(d, answer)
  PROVE  Clients' /\ GoodReports(reported')
  <1> DEFINE Good == Clients' /\ GoodReports(reported')
  <1>1. Shaped(client[d]) /\ GoodQueue(client[d].queue)
    BY DEF Clients, Shaped
  <1>2. CASE C!WorkerStep(d)
    <2>1. PICK c \in C!WorkEnds(client[d]) \cup C!Installs(client[d]) : C!Quiet(d, c)
      BY <1>2 DEF C!WorkerStep
    <2>2. CASE c \in C!WorkEnds(client[d])
      BY <1>1, <2>1, <2>2, WorkEndsShaped, QuietShaped
    <2>3. CASE c \in C!Installs(client[d])
      <3>1. c = [client[d] EXCEPT !.work = "install"]
        BY <2>3 DEF C!Installs
      <3>2. Shaped(c)
        BY <1>1, <3>1 DEF Shaped
      <3> QED
        BY <2>1, <3>2, QuietShaped
    <2> QED
      BY <2>1, <2>2, <2>3
  <1>3. CASE C!Heartbeat(d)
    BY <1>1, <1>3, SendShaped DEF C!Heartbeat, C!SendDomainMessage, Answer
  <1>4. CASE C!Restart(d)
    <2>1. PICK disk, version : C!Quiet(d, C!Booted(disk, version))
      BY <1>4 DEF C!Restart
    <2>2. GoodQueue(<<>>)
      <3> DEFINE q == <<>>  S == {}
      <3>1. q \in Seq(S) /\ \A e \in S : e.event = "RES_ANSWER" => e.answer \in Answer
        OBVIOUS
      <3> HIDE DEF q, S
      <3>2. GoodQueue(q)
        BY <3>1 DEF GoodQueue
      <3> QED
        BY <3>2 DEF q
    <2>3. Shaped(C!Booted(disk, version))
      BY <2>2 DEF Shaped, C!Booted, ClientState
    <2> QED
      BY <2>1, <2>3, QuietShaped
  <1>5. ASSUME NEW e, e.event = "RES_ANSWER" => e.answer \in Answer, NEW n,
               \/ C!Quiet(d, [client[d] EXCEPT !.queue = Append(@, e)])
               \/ C!Quiet(d, [client[d] EXCEPT !.messageId = n, !.queue = Append(@, e)])
        PROVE  Good
    <2>1. GoodQueue(Append(client[d].queue, e))
      BY <1>1, <1>5, QueueAppend
    <2>2. /\ Shaped([client[d] EXCEPT !.queue = Append(@, e)])
          /\ Shaped([client[d] EXCEPT !.messageId = n, !.queue = Append(@, e)])
      BY <1>1, <2>1 DEF Shaped
    <2> QED
      BY <1>5, <2>2, QuietShaped
  <1>6. CASE \E m, n : C!ProcessControlMessage(d, m, n)
    <2>1. PICK m, n : C!ProcessControlMessage(d, m, n)
      BY <1>6
    <2> DEFINE e == [event |-> "REQ_CONTROL", message |-> m]
    <2>2. C!Quiet(d, [client[d] EXCEPT !.messageId = n, !.queue = Append(@, e)])
      BY <2>1 DEF C!ProcessControlMessage
    <2>3. e.event # "RES_ANSWER"
      OBVIOUS
    <2> HIDE DEF e
    <2> QED
      BY <1>5, <2>2, <2>3
  <1>7. CASE \E shown : C!ProcessDetailMessage(d, shown)
    <2>1. PICK shown : C!ProcessDetailMessage(d, shown)
      BY <1>7
    <2> DEFINE e == [event |-> "REQ_DETAIL", shown |-> shown]
    <2>2. C!Quiet(d, [client[d] EXCEPT !.queue = Append(@, e)])
      BY <2>1 DEF C!ProcessDetailMessage
    <2>3. e.event # "RES_ANSWER"
      OBVIOUS
    <2> HIDE DEF e
    <2> QED
      BY <1>5, <2>2, <2>3
  <1>8. CASE \E answer \in Answer : C!PostDetailAnswer(d, answer)
    <2>1. PICK answer \in Answer : C!PostDetailAnswer(d, answer)
      BY <1>8
    <2> DEFINE e == [event |-> "RES_ANSWER", answer |-> answer]
    <2>2. C!Quiet(d, [client[d] EXCEPT !.queue = Append(@, e)])
      BY <2>1 DEF C!PostDetailAnswer
    <2>3. e.answer \in Answer
      OBVIOUS
    <2> HIDE DEF e
    <2> QED
      BY <1>5, <2>2, <2>3
  <1> QED
    BY <1>2, <1>3, <1>4, <1>6, <1>7, <1>8

\* Well formed are the clients, and what they have reported.
ShapeInv ==
  /\ Clients
  /\ up = [d \in Domain |-> up[d]]
  /\ \A d \in Domain : GoodReports(up[d])

\* The clients and what is under way are well formed at first, and stay so.
LEMMA InitShapeInv == SystemInit => ShapeInv
  <1> SUFFICES ASSUME SystemInit PROVE ShapeInv
    OBVIOUS
  <1>1. ASSUME NEW d \in Domain PROVE Shaped(client[d])
    <2> DEFINE q == <<>>  S == {}
    <2>1. q \in Seq(S) /\ \A e \in S : e.event = "RES_ANSWER" => e.answer \in Answer
      OBVIOUS
    <2>2. \E disk, n : client[d] = C!Booted(disk, n)
      BY DEF SystemInit, C!Init
    <2>3. \A disk, n : C!Booted(disk, n).queue = q
      BY DEF C!Booted
    <2> HIDE DEF q, S
    <2>4. GoodQueue(q)
      BY <2>1 DEF GoodQueue
    <2> QED
      BY <2>2, <2>3, <2>4 DEF Shaped, C!Booted, ClientState
  <1>2. Clients
    BY <1>1 DEF Clients, SystemInit, C!Init
  <1> QED
    BY <1>2, FewReports DEF ShapeInv, SystemInit

LEMMA StepShapeInv ==
  ASSUME ShapeInv, [SystemNext]_systemVars
  PROVE  ShapeInv'
  <1>1. ASSUME UNCHANGED <<clientsVars, up>> PROVE ShapeInv'
    BY <1>1 DEF ShapeInv, Clients, clientsVars
  <1>2. ASSUME NEW d \in Domain, NEW q, GoodReports(q), up' = [up EXCEPT ![d] = q], Clients'
        PROVE  ShapeInv'
    BY <1>2 DEF ShapeInv
  <1>3. ASSUME NEW d \in Domain, Clients', GoodReports(reported'), Sending(d)
        PROVE  ShapeInv'
    <2>1. GoodReports(up[d] \o reported')
      BY <1>3, ReportsConcat DEF ShapeInv
    <2> QED
      BY <1>2, <1>3, <2>1 DEF Sending
  <1>4. ASSUME Clients', up' = up PROVE ShapeInv'
    BY <1>4 DEF ShapeInv
  <1>5. ASSUME Beside PROVE up' = up
    BY <1>5 DEF Beside, busVars
  <1>6. CASE \/ Tick \/ WebDone \/ WebFails \/ Backend \/ UNCHANGED systemVars
             \/ \E d \in Domain : Serve(d) \/ Join(d)
    <2>1. UNCHANGED <<clientsVars, up>>
      BY <1>6 DEF Tick, WebDone, WebFails, Backend, Serve, Join, systemVars, busVars
    <2> QED
      BY <1>1, <2>1
  <1>7. CASE ServerRestart
    <2>1. client' = client /\ up' = [d \in Domain |-> <<>>]
      BY <1>7 DEF ServerRestart, clientsVars
    <2> QED
      BY <2>1, FewReports DEF ShapeInv, Clients
  <1>8. ASSUME NEW d \in Domain, Receive(d) PROVE ShapeInv'
    <2>1. /\ up[d] # <<>> /\ up' = [up EXCEPT ![d] = Tail(up[d])]
          /\ client' = client
      BY <1>8 DEF Receive, clientsVars
    <2>2. GoodReports(Tail(up[d]))
      BY <2>1, ReportsTail DEF ShapeInv
    <2>3. Clients'
      BY <2>1 DEF ShapeInv, Clients
    <2> QED
      BY <1>2, <2>1, <2>2, <2>3
  <1>9. ASSUME NEW d \in Domain, Handle(d) PROVE ShapeInv'
    <2>1. C!Handle(d) /\ (Sending(d) \/ Beside)
      BY <1>9 DEF Handle, C!Handle
    <2>2. Clients' /\ GoodReports(reported')
      BY <2>1, HandleShaped DEF ShapeInv
    <2> QED
      BY <1>3, <1>4, <1>5, <2>1, <2>2
  <1>10. ASSUME NEW d \in Domain, SendHeartbeat(d) PROVE ShapeInv'
    <2>1. Clients' /\ GoodReports(reported')
      BY <1>10, BesideShaped DEF SendHeartbeat, ShapeInv
    <2> QED
      BY <1>3, <1>10, <2>1 DEF SendHeartbeat
  <1>11. ASSUME NEW d \in Domain, WorkerStep(d) \/ User(d) PROVE ShapeInv'
    <2>1. /\ Beside
          /\ \/ C!WorkerStep(d)
             \/ \E shown : C!ProcessDetailMessage(d, shown)
             \/ \E answer \in Answer : C!PostDetailAnswer(d, answer)
      BY <1>11 DEF WorkerStep, User, Answer
    <2>2. Clients'
      BY <2>1, BesideShaped DEF ShapeInv
    <2> QED
      BY <1>4, <1>5, <2>1, <2>2
  <1>12. ASSUME NEW d \in Domain, Arrive(d) PROVE ShapeInv'
    <2>1. /\ up' = up
          /\ UNCHANGED clientsVars \/ \E m, n : C!ProcessControlMessage(d, m, n)
      BY <1>12 DEF Arrive
    <2>2. Clients'
      BY <2>1, BesideShaped DEF ShapeInv, Clients, clientsVars
    <2> QED
      BY <1>4, <2>1, <2>2
  <1>13. ASSUME NEW d \in Domain, Break(d) PROVE ShapeInv'
    <2>1. /\ up' = [up EXCEPT ![d] = <<>>]
          /\ UNCHANGED clientsVars \/ C!Restart(d)
      BY <1>13 DEF Break
    <2>2. Clients'
      BY <2>1, BesideShaped DEF ShapeInv, Clients, clientsVars
    <2> QED
      BY <1>2, <2>1, <2>2, FewReports
  <1> QED
    BY <1>6, <1>7, <1>8, <1>9, <1>10, <1>11, <1>12, <1>13 DEF SystemNext, ClientStep

LEMMA ShapeInvariance == SystemSpec => []ShapeInv
  BY InitShapeInv, StepShapeInv, PTL DEF SystemSpec

-----------------------------------------------------------------------------
(* The server in the vehicle. *)

\* The server is offline only until it has started, and takes the ids of upgrades.
LEMMA ServerStays ==
  ASSUME WebStep \/ ReportStep \/ TimerStep
  PROVE  /\ state # "MR_OFFLINE" => state' # "MR_OFFLINE"
         /\ lastlId' = lastlId \/ lastlId' \in Id
  <1> DEFINE Stays == state # "MR_OFFLINE" => state' # "MR_OFFLINE"
             Takes == lastlId' = lastlId \/ lastlId' \in Id
  <1>1. ASSUME NEW new, new # "MR_OFFLINE", NEW from, NEW b, NEW a,
               SetState(from, new, b, a)
        PROVE  Stays
    BY <1>1 DEF SetState
  <1>2. ASSUME NEW finished, NEW from, NEW j, NEW b, NEW m, NEW a,
               Feedback(finished, from, j, b, m, a)
        PROVE  Stays
    <2>1. \E new \in {"MR_DONE_ASK", "MR_ERROR_ASK", "MR_IDLE"} :
            \E bb : SetState(from, new, bb, a)
      BY <1>2 DEF Feedback
    <2> QED
      BY <1>1, <2>1
  <1>3. ASSUME NEW finished, NEW j, NEW m, TryFeedback(finished, j, m) PROVE Stays
    BY <1>2, <1>3 DEF TryFeedback
  <1>4. CASE ResInit \/ ReqIdle
    BY <1>1, <1>4 DEF ResInit, ReqIdle, Idle
  <1>5. CASE ResError
    BY <1>1, <1>3, <1>5 DEF ResError, RetryDownload, GiveUp
  <1>6. CASE ResDownloadDone \/ ResVerifyDone \/ ResDistributeDone
    BY <1>1, <1>6 DEF ResDownloadDone, ResVerifyDone, ResDistributeDone, PhaseDone
  <1>7. ASSUME NEW distributing, ReqPull(distributing) PROVE Stays /\ Takes
    BY <1>1, <1>7 DEF ReqPull
  <1>8. ASSUME NEW u \in Upgrades, ReqUpgrade(u) PROVE Stays /\ Takes
    <2>1. u.id \in Id
      BY InputAssumption DEF Upgrade
    <2> QED
      BY <1>1, <1>8, <2>1 DEF ReqUpgrade, Pending
  <1>9. ASSUME NEW id, ReqCancel(id) PROVE Stays /\ Takes
    <2>1. Takes
      BY <1>9 DEF ReqCancel
    <2>2. \/ \E finished, j, a : Feedback(finished, state, j, <<>>, <<>>, a)
          \/ SetState(state, "MR_CANCEL_ASK", <<>>, <<>>)
      BY <1>9 DEF ReqCancel
    <2> QED
      BY <1>1, <1>2, <2>1, <2>2
  <1>10. ASSUME NEW d, NEW r, NEW discovery, ResDomain(d, r, discovery) PROVE Stays /\ Takes
    BY <1>10 DEF ResDomain, requestVars
  <1>11. ASSUME NEW d, NEW r, NEW discovery, NEW answer, ResAnswer(d, r, discovery, answer)
         PROVE  Stays /\ Takes
    <2>1. Takes /\ \E j, m : Accept(j, m) \/ Refuse(j, m) \/ OtherAnswer(j, m)
      BY <1>11 DEF ResAnswer
    <2>2. ASSUME NEW j, NEW m, Accept(j, m) PROVE Stays
      BY <1>1, <2>2 DEF Accept, Idle
    <2>3. ASSUME NEW j, NEW m, Refuse(j, m) PROVE Stays
      BY <1>1, <1>3, <2>3 DEF Refuse, Pending, Idle
    <2>4. ASSUME NEW j, NEW m, OtherAnswer(j, m) PROVE Stays
      BY <2>4 DEF OtherAnswer
    <2> QED
      BY <2>1, <2>2, <2>3, <2>4
  <1>12. ASSUME NEW late, NEW silent, NEW overdue, ProcessDomains(late, silent, overdue)
         PROVE  Stays /\ Takes
    <2>1. Takes
      BY <1>12 DEF ProcessDomains
    <2>2. ASSUME NEW j, NEW b, NEW m, Conclude(j, b, m) PROVE Stays
      <3>1. \/ \E finished, from, bb, mm : Feedback(finished, from, j, bb, mm, <<>>)
            \/ SetState(state, Released(j), b, Demand(Released(j)))
        BY <2>2 DEF Conclude
      <3>2. state # "MR_OFFLINE" => Released(j) # "MR_OFFLINE"
        BY DEF Released, Selected
      <3> QED
        BY <1>1, <1>2, <3>1, <3>2
    <2>3. \/ \E j, b, m : Feedback(FALSE, state, j, b, m, <<>>)
          \/ \E j, b, m : Conclude(j, b, m)
      BY <1>12 DEF ProcessDomains
    <2> QED
      BY <1>2, <2>1, <2>2, <2>3
  <1>13. CASE \/ ResInit \/ ReqIdle \/ ResError
              \/ ResDownloadDone \/ ResVerifyDone \/ ResDistributeDone
    <2>1. Takes
      BY <1>13 DEF ResInit, ReqIdle, ResError, RetryDownload, GiveUp, ResDownloadDone,
                   ResVerifyDone, ResDistributeDone, PhaseDone
    <2> QED
      BY <1>4, <1>5, <1>6, <1>13, <2>1
  <1> QED
    BY <1>7, <1>8, <1>9, <1>10, <1>11, <1>12, <1>13 DEF WebStep, ReportStep, TimerStep

\* A transfer runs only for a server that is on, and who waits for an upgrade has
\* offered one.
BackInv ==
  /\ transfer # "none" => state # "MR_OFFLINE"
  /\ wanted = "deploy" => lastlId \in Id

VehicleInv == ShapeInv /\ IInv /\ BackInv

\* What the server makes of the first report of d is a report.
LEMMA ReportRead ==
  ASSUME ShapeInv, NEW d \in Domain, up[d] # <<>>
  PROVE  LET m == Head(up[d])
         IN /\ IsReport(m)
            /\ [ state |-> m.state, last |-> m.last, version |-> Compared(m.version),
                 error |-> m.error ] \in DomainReport
  <1> DEFINE m == Head(up[d])
  <1>1. IsReport(m)
    BY ReportsTail DEF ShapeInv
  <1> HIDE DEF m
  <1>2. Compared(m.version) \in Version
    BY DEF Compared, Version
  <1>3. [ state |-> m.state, last |-> m.last, version |-> Compared(m.version),
          error |-> m.error ] \in DomainReport
    BY <1>1, <1>2 DEF IsReport, DomainReport
  <1> QED
    BY <1>1, <1>3 DEF m

\* Each step of the vehicle is one of a server whose clients may report anything, or
\* none of it.
LEMMA VehicleStepIsServer ==
  ASSUME VehicleInv, [SystemNext]_systemVars
  PROVE  [AnyStep]_vars
  <1>1. CASE Tick
    <2>1. {} \in SUBSET job.deploying /\ {} \in SUBSET job.heard
      OBVIOUS
    <2>2. \E late \in BOOLEAN, silent \in SUBSET job.heard :
            ProcessDomains(late, silent, {})
      BY <1>1, <2>1 DEF Tick
    <2> QED
      BY <2>1, <2>2 DEF AnyStep, TimerStep
  <1>2. CASE WebDone
    <2>1. \/ state = "MR_OFFLINE" /\ ResInit
          \/ /\ transfer # "none"
             /\ ResDownloadDone \/ ResVerifyDone \/ ReqPull(TRUE) \/ ResDistributeDone
      BY <1>2 DEF WebDone
    <2> QED
      BY <2>1 DEF AnyStep, WebStep, VehicleInv, BackInv
  <1>3. CASE WebFails
    BY <1>3 DEF WebFails, AnyStep, WebStep, VehicleInv, BackInv
  <1>4. CASE Backend
    <2>1. /\ state # "MR_OFFLINE"
          /\ \/ \E u \in Upgrades : ReqUpgrade(u)
             \/ wanted = "deploy" /\ ReqCancel(lastlId)
      BY <1>4 DEF Backend
    <2> QED
      BY <2>1 DEF AnyStep, WebStep, VehicleInv, BackInv
  <1>5. CASE ServerRestart
    BY <1>5 DEF ServerRestart, AnyStep
  <1>6. ASSUME NEW d \in Domain, Receive(d) PROVE AnyStep
    <2> DEFINE m == Head(up[d])
               r == [ state |-> m.state, last |-> m.last, version |-> Compared(m.version),
                      error |-> m.error ]
    <2>1. IsReport(m) /\ r \in DomainReport
      BY <1>6, ReportRead DEF Receive, VehicleInv
    <2>2. ResDomain(d, r, m.discovery) \/ ResAnswer(d, r, m.discovery, m.answer)
      BY <1>6 DEF Receive
    <2> HIDE DEF m, r
    <2> QED
      BY <2>1, <2>2 DEF AnyStep, ReportStep, IsReport
  <1>7. ASSUME NEW d \in Domain, ClientStep(d) \/ Join(d) \/ Break(d) PROVE UNCHANGED vars
    BY <1>7 DEF ClientStep, Handle, SendHeartbeat, WorkerStep, Serve, Arrive, User, Join,
                Break, Sending, Beside
  <1>8. CASE UNCHANGED systemVars
    BY <1>8 DEF systemVars
  <1> QED
    BY <1>1, <1>2, <1>3, <1>4, <1>5, <1>6, <1>7, <1>8 DEF SystemNext

\* Every step keeps to what the web queue and the backend do.
LEMMA BackStep ==
  ASSUME VehicleInv, [SystemNext]_systemVars
  PROVE  BackInv'
  <1>1. ASSUME WebStep \/ ReportStep \/ TimerStep,
               transfer' # "none" => state # "MR_OFFLINE",
               wanted' = "deploy" => wanted = "deploy" \/ lastlId' \in Id
        PROVE  BackInv'
    BY <1>1, ServerStays DEF VehicleInv, BackInv
  <1>2. ASSUME NEW otherwise, NEW else, Web(otherwise, else)
        PROVE  /\ posted' = <<>> => transfer' = otherwise
               /\ wanted' \in {"nothing", else}
    BY <1>2 DEF Web
  <1>3. ASSUME Answering PROVE wanted' = "deploy" => wanted = "deploy"
    BY <1>2, <1>3 DEF Answering
  <1>4. CASE Tick
    <2>1. {} \in SUBSET job.deploying /\ {} \in SUBSET job.heard
      OBVIOUS
    <2>2. \E late \in BOOLEAN, silent \in SUBSET job.heard :
            ProcessDomains(late, silent, {})
      BY <1>4, <2>1 DEF Tick
    <2>3. TimerStep
      BY <2>1, <2>2 DEF TimerStep
    <2>4. state # "MR_OFFLINE"
      BY <2>2 DEF ProcessDomains, Watching
    <2> QED
      BY <1>1, <1>3, <1>4, <2>3, <2>4 DEF Tick
  <1>5. CASE WebDone
    <2>1. \/ state = "MR_OFFLINE" /\ ResInit /\ Web(transfer, wanted)
          \/ /\ transfer # "none"
             /\ ResDownloadDone \/ ResVerifyDone \/ ReqPull(TRUE) \/ ResDistributeDone
             /\ \E otherwise : Web(otherwise, wanted)
      BY <1>5 DEF WebDone
    <2>2. WebStep
      BY <2>1 DEF WebStep, VehicleInv, BackInv
    <2>3. wanted' = "deploy" => wanted = "deploy"
      BY <1>2, <2>1
    <2>4. CASE state = "MR_OFFLINE" /\ ResInit
      <3>1. SetState(state, "MR_IDLE", <<>>, <<>>)
        BY <2>4 DEF ResInit, Idle
      <3>2. state' # "MR_OFFLINE"
        BY <3>1 DEF SetState
      <3> QED
        BY <2>2, <2>3, <3>2, ServerStays DEF VehicleInv, BackInv
    <2> QED
      BY <1>1, <2>1, <2>2, <2>3, <2>4 DEF VehicleInv, BackInv
  <1>6. CASE WebFails
    <2>1. WebStep /\ state # "MR_OFFLINE"
      BY <1>6 DEF WebFails, WebStep, VehicleInv, BackInv
    <2>2. wanted' = "deploy" => wanted = "deploy"
      BY <1>2, <1>6 DEF WebFails
    <2> QED
      BY <1>1, <2>1, <2>2
  <1>7. CASE Backend
    <2>1. CASE \E u \in Upgrades : ReqUpgrade(u)
      <3>1. lastlId' \in Id
        BY <2>1, InputAssumption DEF ReqUpgrade, Upgrade
      <3>2. WebStep /\ state # "MR_OFFLINE"
        BY <1>7, <2>1 DEF Backend, WebStep
      <3> QED
        BY <1>1, <3>1, <3>2
    <2>2. CASE wanted = "deploy" /\ ReqCancel(lastlId)
      <3>1. WebStep /\ state # "MR_OFFLINE"
        BY <1>7, <2>2 DEF Backend, WebStep, VehicleInv, BackInv
      <3> QED
        BY <1>1, <2>2, <3>1
    <2> QED
      BY <1>7, <2>1, <2>2 DEF Backend
  <1>8. CASE ServerRestart
    BY <1>8 DEF ServerRestart, BackInv
  <1>9. ASSUME NEW d \in Domain, Receive(d) PROVE BackInv'
    <2> DEFINE m == Head(up[d])
               r == [ state |-> m.state, last |-> m.last, version |-> Compared(m.version),
                      error |-> m.error ]
    <2>1. IsReport(m) /\ r \in DomainReport
      BY <1>9, ReportRead DEF Receive, VehicleInv
    <2>2. /\ \/ ResDomain(d, r, m.discovery)
             \/ state \in mrStateIsAsk /\ ResAnswer(d, r, m.discovery, m.answer)
          /\ Answering
      BY <1>9 DEF Receive
    <2> HIDE DEF m, r
    <2>3. ReportStep
      BY <2>1, <2>2 DEF ReportStep, IsReport
    <2>4. state = "MR_OFFLINE" => posted' = <<>>
      BY <2>2 DEF ResDomain, mrStateIsAsk
    <2>5. state = "MR_OFFLINE" => transfer' = transfer
      BY <1>2, <2>2, <2>4 DEF Answering
    <2> QED
      BY <1>1, <1>3, <2>2, <2>3, <2>5 DEF VehicleInv, BackInv
  <1>10. CASE \/ \E d \in Domain : ClientStep(d) \/ Join(d) \/ Break(d)
              \/ UNCHANGED systemVars
    <2>1. state' = state /\ transfer' = transfer /\ wanted' = wanted /\ lastlId' = lastlId
      BY <1>10 DEF ClientStep, Handle, SendHeartbeat, WorkerStep, Serve, Arrive, User, Join,
                   Break, Sending, Beside, systemVars, backVars, vars, requestVars
    <2> QED
      BY <2>1 DEF VehicleInv, BackInv
  <1> QED
    BY <1>4, <1>5, <1>6, <1>7, <1>8, <1>9, <1>10 DEF SystemNext

\* The invariant of the vehicle.
LEMMA VehicleInvariance == SystemSpec => []VehicleInv
  <1>1. SystemInit => VehicleInv
    BY InitShapeInv, InitIInv DEF SystemInit, VehicleInv, BackInv
  <1>2. VehicleInv /\ [SystemNext]_systemVars => VehicleInv'
    BY StepShapeInv, VehicleStepIsServer, AnyStepIInv, BackStep DEF VehicleInv
  <1> QED
    BY <1>1, <1>2, PTL DEF SystemSpec

\* The server in the vehicle does what a server may do whose clients report anything:
\* the web queue and the backend of OtaSystem send it nothing else.
THEOREM VehicleServer == SystemSpec => AnySpec
  <1>1. SystemInit => Init
    BY DEF SystemInit
  <1>2. VehicleInv /\ [SystemNext]_systemVars => [AnyStep]_vars
    BY VehicleStepIsServer
  <1> QED
    BY <1>1, <1>2, VehicleInvariance, PTL DEF SystemSpec, AnySpec

\* So it keeps the invariants of OtaServer, and tells the backend of no success that the
\* reports of its clients do not bear out.
THEOREM VehicleKeeps == SystemSpec => []IInv /\ SuccessIsTrue
  BY VehicleServer, WhateverReported

-----------------------------------------------------------------------------
(* What the server sends, and the clients get. *)

\* A message has a control, an upgrade or none, and domains that are waited for.
ControlSent ==
  [ control : Control \ {"CTL_UNKNOWN"}, upgrade : Upgrade \cup {NoUpgrade},
    depends : SUBSET Domain, cached : BOOLEAN ]

\* The messages that the operators of the server make.
LEMMA MessageType ==
  ASSUME NEW c \in Control \ {"CTL_UNKNOWN"}, NEW j \in Job, NEW b \in BOOLEAN
  PROVE  Message(c, j, b) \in ControlSent /\ << Message(c, j, b) >> \in Seq(ControlSent)
  <1> DEFINE m == Message(c, j, b)
  <1>1. m \in ControlSent
    BY DEF Message, ControlSent, Job
  <1> HIDE DEF m
  <1>2. << m >> \in Seq(ControlSent)
    BY <1>1
  <1> QED
    BY <1>1, <1>2 DEF m

LEMMA RepeatedType ==
  ASSUME IInv, NEW d, NEW discovery PROVE Repeated(d, discovery) \in Seq(ControlSent)
  <1>1. job \in Job /\ control \in Control /\ TRUE \in BOOLEAN
    BY DEF IInv, TypeOK
  <1>2. control # "CTL_UNKNOWN" => << Message(control, job, TRUE) >> \in Seq(ControlSent)
    BY <1>1, MessageType
  <1> DEFINE q == << Message(control, job, TRUE) >>
  <1>3. \/ Repeated(d, discovery) = <<>>
        \/ control # "CTL_UNKNOWN" /\ Repeated(d, discovery) = q
    BY DEF Repeated
  <1>4. <<>> \in Seq(ControlSent)
    OBVIOUS
  <1> HIDE DEF q
  <1> QED
    BY <1>2, <1>3, <1>4 DEF q

LEMMA SendType ==
  ASSUME NEW c \in Control \ {"CTL_UNKNOWN"}, NEW j \in Job,
         NEW before \in Seq(ControlSent), SendControlMessage(c, j, before)
  PROVE  sent' \in Seq(ControlSent)
  <1>1. << Message(c, j, FALSE) >> \in Seq(ControlSent)
    BY MessageType, FALSE \in BOOLEAN
  <1> QED
    BY <1>1, ConcatProperties DEF SendControlMessage

LEMMA FeedbackSends ==
  ASSUME NEW finished, NEW from, NEW j \in Job, NEW before,
         NEW message \in Seq(ControlSent), NEW after,
         Feedback(finished, from, j, before, message, after)
  PROVE  sent' \in Seq(ControlSent)
  BY SendType DEF Feedback, Control

LEMMA TryFeedbackSends ==
  ASSUME NEW finished, NEW j \in Job, NEW message \in Seq(ControlSent),
         TryFeedback(finished, j, message)
  PROVE  sent' \in Seq(ControlSent)
  <1>1. CASE Answered
    BY <1>1 DEF TryFeedback
  <1>2. CASE ~Answered
    BY <1>2, FeedbackSends DEF TryFeedback
  <1> QED
    BY <1>1, <1>2

LEMMA PendingSends ==
  ASSUME NEW u \in Upgrade, NEW j \in Job, NEW message \in Seq(ControlSent),
         Pending(u, j, message)
  PROVE  sent' \in Seq(ControlSent)
  <1>1. Fresh(u, j) \in Job
    BY FreshType
  <1> QED
    BY <1>1, SendType DEF Pending, Control

\* What the timer sends again for the domains it finds finished.
LEMMA ResentType ==
  ASSUME IInv, NEW n \in 0 .. Len(Order), NEW silent
  PROVE  Resent(n, silent) \in Seq(ControlSent)
  <1>1. n \in Nat /\ IsFiniteSet(1 .. n)
    BY DomainAssumption, LenProperties, FS_Interval
  <1>2. FinishedBy(n, silent) \in SUBSET (1 .. n)
    BY DEF FinishedBy
  <1>3. Repeats(n, silent) \in Nat
    BY <1>1, <1>2, FS_Subset, FS_CardinalityType DEF Repeats
  <1>4. ASSUME NEW i
        PROVE  Message("CTL_DEPLOY",
                       [job EXCEPT !.depends = Depends(FinishedAt(i, silent), silent)],
                       FALSE)
                 \in ControlSent
    <2> DEFINE depends == Depends(FinishedAt(i, silent), silent)
    <2>1. job \in Job /\ depends \in SUBSET Domain
      BY DEF IInv, TypeOK, Depends
    <2> HIDE DEF depends
    <2>2. [job EXCEPT !.depends = depends] \in Job
      BY <2>1 DEF Job
    <2> QED
      BY <2>2, MessageType DEF depends, Control
  <1> DEFINE k == Repeats(n, silent)
             m(i) == Message("CTL_DEPLOY",
                       [job EXCEPT !.depends = Depends(FinishedAt(i, silent), silent)],
                       FALSE)
  <1>5. Resent(n, silent) = [i \in 1 .. k |-> m(i)]
    BY DEF Resent
  <1>6. k \in Nat /\ \A i : m(i) \in ControlSent
    BY <1>3, <1>4
  <1> HIDE DEF k, m
  <1> QED
    BY <1>5, <1>6

\* The end of the walk of the timer.
LEMMA ConcludeSends ==
  ASSUME IInv, NEW j \in Job, NEW feeds, NEW messages \in Seq(ControlSent),
         Conclude(j, feeds, messages)
  PROVE  sent' \in Seq(ControlSent)
  <1>1. Release(Released(j), j) \in Seq(ControlSent)
    <2>1. << Message("CTL_DEPLOY", j, FALSE) >> \in Seq(ControlSent)
      BY MessageType, FALSE \in BOOLEAN DEF Control
    <2> DEFINE q == << Message("CTL_DEPLOY", j, FALSE) >>
               release == Release(Released(j), j)
    <2>2. release = q \/ release = <<>>
      BY DEF Release
    <2>3. q \in Seq(ControlSent)
      BY <2>1
    <2>4. <<>> \in Seq(ControlSent)
      OBVIOUS
    <2> HIDE DEF q, release
    <2>5. release \in Seq(ControlSent)
      BY <2>2, <2>3, <2>4
    <2> QED
      BY <2>5 DEF release
  <1>2. messages \o Release(Released(j), j) \in Seq(ControlSent)
    BY <1>1, ConcatProperties
  <1>3. \/ \E finished, from, b : Feedback(finished, from, j, b, messages, <<>>)
        \/ \E finished, from, b :
             Feedback(finished, from, j, b, messages \o Release(Released(j), j), <<>>)
        \/ sent' = messages \o Release(Released(j), j)
    BY DEF Conclude
  <1> QED
    BY <1>2, <1>3, FeedbackSends

\* Whatever the step, its messages are those of the protocol.
LEMMA StepSends ==
  ASSUME IInv, AnyStep
  PROVE  sent' \in Seq(ControlSent)
  <1>1. /\ job \in Job /\ job.upgrade \in Upgrade \cup {NoUpgrade}
        /\ <<>> \in Seq(ControlSent)
    BY DEF IInv, TypeOK, Job
  <1>2. CASE ResInit \/ ReqIdle \/ RetryDownload \/ Restart
    BY <1>1, <1>2 DEF ResInit, ReqIdle, RetryDownload, Restart
  <1>3. CASE GiveUp
    BY <1>1, <1>3, TryFeedbackSends DEF GiveUp
  <1>4. CASE ResDownloadDone \/ ResVerifyDone \/ ResDistributeDone
    BY <1>1, <1>4 DEF ResDownloadDone, ResVerifyDone, ResDistributeDone, PhaseDone
  <1>5. ASSUME NEW distributing, ReqPull(distributing) PROVE sent' \in Seq(ControlSent)
    BY <1>1, <1>5, SendType DEF ReqPull, Control
  <1>6. ASSUME NEW u \in Upgrades, ReqUpgrade(u) PROVE sent' \in Seq(ControlSent)
    BY <1>1, <1>6, PendingSends, InputAssumption DEF ReqUpgrade
  <1>7. ASSUME NEW id \in Id, ReqCancel(id) PROVE sent' \in Seq(ControlSent)
    <2> DEFINE j == [job EXCEPT !.cancelId = id]
    <2>1. j \in Job
      BY <1>1 DEF Job
    <2>2. \/ \E finished, a : Feedback(finished, state, j, <<>>, <<>>, a)
          \/ sent' = <<>>
      BY <1>7 DEF ReqCancel
    <2> HIDE DEF j
    <2> QED
      BY <1>1, <2>1, <2>2, FeedbackSends
  <1>8. ASSUME NEW d \in Domain, NEW r \in DomainReport, NEW discovery \in BOOLEAN,
               \/ ResDomain(d, r, discovery)
               \/ \E answer \in Answer : ResAnswer(d, r, discovery, answer)
        PROVE  sent' \in Seq(ControlSent)
    <2> DEFINE j == Recorded(d, r)
               repeated == Repeated(d, discovery)
    <2>1. /\ j \in Job /\ repeated \in Seq(ControlSent)
          /\ j.upgrade \in Upgrade \cup {NoUpgrade}
      BY RecordedType, RepeatedType DEF Job
    <2>2. \/ sent' = repeated
          \/ Accept(j, repeated) \/ Refuse(j, repeated) \/ OtherAnswer(j, repeated)
      BY <1>8 DEF ResDomain, ResAnswer
    <2> HIDE DEF j, repeated
    <2>3. CASE Accept(j, repeated)
      <3>1. [j EXCEPT !.depends = cacheDepends] \in Job
        BY <2>1 DEF IInv, TypeOK, Job
      <3>2. \/ sent' = repeated
            \/ SendControlMessage("CTL_DEPLOY", j, repeated)
            \/ SendControlMessage("CTL_CANCEL", j, repeated)
            \/ /\ job' = [j EXCEPT !.depends = cacheDepends]
               /\ SendControlMessage("CTL_DEPLOY", job', repeated)
        BY <2>3 DEF Accept
      <3> QED
        BY <2>1, <3>1, <3>2, SendType DEF Control
    <2>4. CASE Refuse(j, repeated)
      <3>1. \/ TryFeedback(FALSE, j, repeated)
            \/ state = "MR_RESUME_ASK" /\ Pending(job.upgrade, j, repeated)
            \/ sent' = repeated
        BY <2>4 DEF Refuse
      <3>2. state = "MR_RESUME_ASK" => job.upgrade \in Upgrade
        BY <1>1 DEF IInv, SelectionFresh
      <3> QED
        BY <2>1, <3>1, <3>2, TryFeedbackSends, PendingSends
    <2> QED
      BY <2>1, <2>2, <2>3, <2>4 DEF OtherAnswer
  <1>9. ASSUME NEW late, NEW silent, NEW overdue, ProcessDomains(late, silent, overdue)
        PROVE  sent' \in Seq(ControlSent)
    <2>1. CASE Feedback(FALSE, state, job, <<>>, <<>>, <<>>)
      BY <1>1, <2>1, FeedbackSends
    <2>2. ASSUME NEW n \in 0 .. Len(Order)
          PROVE  After(n, silent) \in Job /\ Resent(n, silent) \in Seq(ControlSent)
      BY AfterType, ResentType
    <2>3. \E n \in 0 .. Len(Order) :
            \/ Feedback(FALSE, state, job, <<>>, <<>>, <<>>)
            \/ Feedback(FALSE, state, After(n, silent), Scheduled(n, silent),
                        Resent(n, silent), <<>>)
            \/ Conclude(After(n, silent), Scheduled(n, silent), Resent(n, silent))
      <3>1. 0 \in 0 .. Len(Order)
        BY DomainAssumption, LenProperties
      <3> QED
        BY <1>9, <3>1 DEF ProcessDomains
    <2> QED
      BY <2>1, <2>2, <2>3, FeedbackSends, ConcludeSends
  <1> QED
    BY <1>2, <1>3, <1>4, <1>5, <1>6, <1>7, <1>8, <1>9
    DEF AnyStep, WebStep, ResError, ReportStep, TimerStep

\* What is under way to the clients.
Carriage == [number : 0 .. Total, content : Contents]

MessagesInv ==
  /\ number \in 0 .. Total
  /\ down \in [Domain -> Seq(Carriage)]
  /\ sent \in Seq(ControlSent)

\* Numbering and broadcasting them.
LEMMA NumberedType ==
  ASSUME NEW n \in Nat, NEW messages \in Seq(ControlSent)
  PROVE  Numbered(n, messages) \in Seq(Carriage)
  <1> DEFINE fresh(i) == {k \in 1 .. i : ~messages[k].cached}
             next(i) == (n + Cardinality(fresh(i))) % (Total + 1)
             m(i) == Carried(messages[i], next(i))
  <1>1. Len(messages) \in Nat /\ \A i \in 1 .. Len(messages) : messages[i] \in ControlSent
    BY LenProperties
  <1>2. ASSUME NEW i \in 1 .. Len(messages) PROVE next(i) \in 0 .. Total
    <2>1. IsFiniteSet(1 .. i)
      BY <1>1, FS_Interval
    <2>2. fresh(i) \in SUBSET (1 .. i)
      OBVIOUS
    <2>3. Cardinality(fresh(i)) \in Nat
      BY <2>1, <2>2, FS_Subset, FS_CardinalityType
    <2>4. Total \in Nat
      BY SystemAssumption
    <2>5. \A a, b \in Nat : a % (b + 1) \in 0 .. b
      OBVIOUS
    <2> QED
      BY <2>3, <2>4, <2>5
  <1>3. ASSUME NEW x \in ControlSent, NEW k \in 0 .. Total PROVE Carried(x, k) \in Carriage
    <2> DEFINE content == [ control |-> x.control, id |-> x.upgrade.id,
                            domains |-> x.upgrade.domains, depends |-> x.depends ]
    <2>1. /\ x.upgrade.id \in Id \cup {NoId} /\ x.upgrade.domains \in SUBSET Domain
          /\ x.upgrade.id = NoId => x.upgrade.domains = {}
      BY IdAssumption DEF ControlSent, Upgrade, NoUpgrade
    <2>2. content \in Contents
      BY <2>1 DEF ControlSent, Contents
    <2>3. Carried(x, k) = [number |-> k, content |-> content]
      BY DEF Carried
    <2> HIDE DEF content
    <2> QED
      BY <2>2, <2>3 DEF Carriage
  <1>4. Numbered(n, messages) = [i \in 1 .. Len(messages) |-> m(i)]
    BY DEF Numbered
  <1>5. \A i \in 1 .. Len(messages) : m(i) \in Carriage
    BY <1>1, <1>2, <1>3
  <1> HIDE DEF m
  <1> QED
    BY <1>1, <1>4, <1>5

LEMMA BroadcastType ==
  ASSUME MessagesInv, sent' \in Seq(ControlSent), Broadcast
  PROVE  MessagesInv'
  <1> DEFINE out == Numbered(number, sent')
  <1>1. out \in Seq(Carriage)
    BY NumberedType DEF MessagesInv
  <1>2. /\ number' = IF out = <<>> THEN number ELSE out[Len(out)].number
        /\ down' = [d \in Domain |-> IF link[d] = "up" THEN down[d] \o out ELSE down[d]]
    BY DEF Broadcast
  <1> HIDE DEF out
  <1>3. ASSUME out # <<>> PROVE out[Len(out)] \in Carriage
    BY <1>1, <1>3, LenProperties, EmptySeq
  <1>4. number' \in 0 .. Total
    BY <1>2, <1>3 DEF MessagesInv, Carriage
  <1>5. ASSUME NEW d \in Domain PROVE down[d] \o out \in Seq(Carriage)
    BY <1>1, ConcatProperties DEF MessagesInv
  <1> QED
    BY <1>2, <1>4, <1>5 DEF MessagesInv

\* Every step of the vehicle sends messages of the protocol.
LEMMA MessagesStep ==
  ASSUME VehicleInv, MessagesInv, [SystemNext]_systemVars
  PROVE  MessagesInv'
  <1>1. sent' \in Seq(ControlSent)
    <2>1. AnyStep \/ UNCHANGED vars
      BY VehicleStepIsServer
    <2>2. CASE AnyStep
      BY <2>2, StepSends DEF VehicleInv
    <2>3. CASE UNCHANGED vars
      BY <2>3 DEF vars, MessagesInv
    <2> QED
      BY <2>1, <2>2, <2>3
  <1>2. CASE Tick \/ WebDone \/ WebFails \/ Backend \/ \E d \in Domain : Receive(d)
    <2>1. Broadcast
      BY <1>2 DEF Tick, WebDone, WebFails, Backend, Receive, Answering
    <2> QED
      BY <1>1, <2>1, BroadcastType
  <1>3. CASE ServerRestart
    BY <1>1, <1>3, SystemAssumption DEF ServerRestart, MessagesInv
  <1>4. ASSUME NEW d \in Domain, Arrive(d) PROVE MessagesInv'
    <2>1. down[d] # <<>> /\ down' = [down EXCEPT ![d] = Tail(down[d])] /\ number' = number
      BY <1>4 DEF Arrive
    <2>2. Tail(down[d]) \in Seq(Carriage)
      BY <2>1, HeadTailProperties DEF MessagesInv
    <2> QED
      BY <1>1, <2>1, <2>2 DEF MessagesInv
  <1>5. ASSUME NEW d \in Domain, Break(d) PROVE MessagesInv'
    BY <1>1, <1>5 DEF Break, MessagesInv
  <1>6. CASE \/ \E d \in Domain : \/ Handle(d) \/ SendHeartbeat(d) \/ WorkerStep(d)
                                  \/ Serve(d) \/ User(d) \/ Join(d)
             \/ UNCHANGED systemVars
    <2>1. number' = number /\ down' = down
      BY <1>6 DEF Handle, SendHeartbeat, WorkerStep, Serve, User, Join, Sending, Beside,
                  busVars, systemVars
    <2> QED
      BY <1>1, <2>1 DEF MessagesInv
  <1> QED
    BY <1>2, <1>3, <1>4, <1>5, <1>6 DEF SystemNext, ClientStep

\* Each step of the vehicle is a step of its clients, or of none.
LEMMA VehicleStepIsClients ==
  ASSUME VehicleInv, MessagesInv, [SystemNext]_systemVars
  PROVE  [C!Next]_(C!vars)
  <1>1. ASSUME UNCHANGED clientsVars PROVE UNCHANGED C!vars
    BY <1>1 DEF clientsVars, C!vars
  <1>2. CASE \/ Tick \/ WebDone \/ WebFails \/ Backend \/ ServerRestart
             \/ UNCHANGED systemVars
             \/ \E d \in Domain : Receive(d) \/ Serve(d) \/ Join(d)
    <2>1. UNCHANGED clientsVars
      BY <1>2 DEF Tick, WebDone, WebFails, Backend, ServerRestart, Receive, Serve, Join,
                  systemVars
    <2> QED
      BY <1>1, <2>1
  <1>3. ASSUME NEW d \in Domain,
               Handle(d) \/ SendHeartbeat(d) \/ WorkerStep(d) \/ Break(d)
        PROVE  [C!Next]_(C!vars)
    <2>1. \/ C!Handle(d) \/ C!Heartbeat(d) \/ C!WorkerStep(d) \/ C!Restart(d)
          \/ UNCHANGED clientsVars
      BY <1>3 DEF Handle, SendHeartbeat, WorkerStep, Break, C!Handle
    <2> QED
      BY <1>1, <2>1 DEF C!Next
  <1>4. ASSUME NEW d \in Domain, Arrive(d) PROVE [C!Next]_(C!vars)
    <2> DEFINE m == Head(down[d])
    <2>1. /\ C!Room(d) /\ down[d] # <<>>
          /\ UNCHANGED clientsVars \/ C!ProcessControlMessage(d, m.content, m.number)
      BY <1>4 DEF Arrive
    <2>2. m \in Carriage
      BY <2>1, HeadTailProperties DEF MessagesInv
    <2>3. m.content \in Contents /\ m.number \in 0 .. Total
      BY <2>2 DEF Carriage
    <2> HIDE DEF m
    <2> QED
      BY <1>1, <2>1, <2>3 DEF C!Next
  <1>5. ASSUME NEW d \in Domain, User(d) PROVE [C!Next]_(C!vars)
    <2>1. /\ C!Room(d)
          /\ \/ C!ProcessDetailMessage(d, state)
             \/ \E answer \in {"ANS_ACCEPT", "ANS_REFUSE"} : C!PostDetailAnswer(d, answer)
      BY <1>5 DEF User
    <2>2. state \in ServerState
      BY DEF VehicleInv, IInv, TypeOK
    <2> QED
      BY <2>1, <2>2 DEF C!Next
  <1> QED
    BY <1>2, <1>3, <1>4, <1>5 DEF SystemNext, ClientStep

\* The clients in the vehicle do what clients do that get any control messages of the
\* protocol, with any numbers, and any states of the server to show: what OtaClient says
\* of those is true of them (processControlMessage, sendControlMessage).
THEOREM VehicleClients == SystemSpec => C!Spec
  <1>1. SystemInit => C!Init /\ MessagesInv
    BY SystemAssumption DEF SystemInit, Init, MessagesInv
  <1>2. VehicleInv /\ MessagesInv /\ [SystemNext]_systemVars => MessagesInv'
    BY MessagesStep
  <1>3. VehicleInv /\ MessagesInv /\ [SystemNext]_systemVars => [C!Next]_(C!vars)
    BY VehicleStepIsClients
  <1> QED
    BY <1>1, <1>2, <1>3, VehicleInvariance, PTL DEF SystemSpec, C!Spec

-----------------------------------------------------------------------------
(* The server beside the viewer. *)

\* What the viewer hands to the server.
HandsOver ==
  /\ answers \in Seq({"ANS_ACCEPT", "ANS_REFUSE"})
  /\ needDiscovery \in BOOLEAN
  /\ plan \in Cases

SInv == IInv /\ HandsOver

\* What the viewer reports of itself is a report.
LEMMA ReportType == Report \in DomainReport /\ Viewer \in Domain
  BY ViewerAssumption, DomainAssumption DEF Report, DomainReport, ClientState, Version

\* Each step is one of a server whose clients may report anything, or none of it.
LEMMA StepIsServer ==
  ASSUME SInv, [ViewerNext]_<<allVars, plan>>
  PROVE  [AnyStep]_vars
  <1>1. CASE ServerStep
    <2>1. CASE state = "MR_OFFLINE" /\ ResInit
      BY <2>1 DEF AnyStep, WebStep
    <2>2. CASE /\ state \in Transferring
               /\ \/ ResDownloadDone \/ ResVerifyDone \/ ResDistributeDone \/ ResError
                  \/ ReqPull(TRUE)
      BY <2>2 DEF AnyStep, WebStep, Transferring
    <2>3. CASE \E d \in job.listed, r \in plan.reports : ResDomain(d, r, FALSE)
      <3>1. job.listed \subseteq Domain /\ plan.reports \subseteq DomainReport
        BY ViewerAssumption DEF SInv, HandsOver, IInv, TypeOK, Job
      <3> QED
        BY <2>3, <3>1 DEF AnyStep, ReportStep
    <2>4. CASE TimerStep
      BY <2>4 DEF AnyStep
    <2>5. CASE /\ state # "MR_OFFLINE"
               /\ \/ ReqIdle
                  \/ \E u \in Upgrades : ReqUpgrade(u)
                  \/ \E i \in Id : lastlId = i /\ ReqCancel(i)
      BY <2>5 DEF AnyStep, WebStep
    <2> QED
      BY <1>1, <2>1, <2>2, <2>3, <2>4, <2>5 DEF ServerStep
  <1>2. CASE Heartbeat
    <2>1. ResDomain(Viewer, Report, needDiscovery)
      BY <1>2 DEF Heartbeat
    <2> QED
      BY <2>1, ReportType DEF AnyStep, ReportStep, SInv, HandsOver
  <1>3. CASE ServerAnswer
    <2>1. Head(answers) \in Answer
      BY <1>3, HeadTailProperties DEF ServerAnswer, SInv, HandsOver, Answer
    <2>2. \/ ResAnswer(Viewer, Report, FALSE, Head(answers))
          \/ ResDomain(Viewer, Report, FALSE)
      BY <1>3 DEF ServerAnswer
    <2> QED
      BY <2>1, <2>2, ReportType DEF AnyStep, ReportStep
  <1>4. CASE \/ ReqDetail \/ Away \/ Connect \/ ProcessVariant \/ Click
             \/ UNCHANGED <<allVars, plan>>
    BY <1>4 DEF ReqDetail, Away, Connect, ProcessVariant, Click, allVars
  <1>5. CASE Disconnect
    <2>1. UNCHANGED vars \/ Restart
      BY <1>5 DEF Disconnect
    <2> QED
      BY <2>1 DEF AnyStep
  <1> QED
    BY <1>1, <1>2, <1>3, <1>4, <1>5 DEF ViewerNext

\* What the viewer hands over keeps its type.
LEMMA HandsOverStep ==
  ASSUME HandsOver, [ViewerNext]_<<allVars, plan>>
  PROVE  HandsOver'
  <1> DEFINE A == {"ANS_ACCEPT", "ANS_REFUSE"}
  <1>1. CASE UNCHANGED <<allVars, plan>>
    BY <1>1 DEF HandsOver, allVars, clientVars
  <1>2. CASE ViewerNext
    <2>1. plan' = plan
      BY <1>2 DEF ViewerNext
    <2>2. needDiscovery' \in BOOLEAN
      BY <1>2 DEF ViewerNext, ServerStep, Heartbeat, ServerAnswer, ReqDetail, Away, Disconnect,
                  Connect, ProcessVariant, Click, clientVars, HandsOver
    <2>3. \/ answers' \in {answers, <<>>}
          \/ answers # <<>> /\ answers' = Tail(answers)
          \/ \E a \in A : answers' = Append(answers, a)
      BY <1>2 DEF ViewerNext, ServerStep, Heartbeat, ServerAnswer, ReqDetail, Away, Disconnect,
                  Connect, ProcessVariant, Click, Post, windowVars
    <2>4. /\ answers # <<>> => Tail(answers) \in Seq(A)
          /\ \A a \in A : Append(answers, a) \in Seq(A)
          /\ {answers, <<>>} \subseteq Seq(A)
      BY HeadTailProperties, AppendProperties DEF HandsOver
    <2> HIDE DEF A
    <2>5. answers' \in Seq(A)
      BY <2>3, <2>4
    <2> QED
      BY <2>1, <2>2, <2>5 DEF HandsOver, A
  <1> QED
    BY <1>1, <1>2

LEMMA StepSInv ==
  ASSUME SInv, [ViewerNext]_<<allVars, plan>>
  PROVE  SInv'
  BY StepIsServer, AnyStepIInv, HandsOverStep DEF SInv

LEMMA InitSInv == ViewerInit => SInv
  BY InitIInv DEF ViewerInit, SInv, HandsOver

LEMMA ServerInvariance == ViewerSpec => []SInv
  BY InitSInv, StepSInv, PTL DEF ViewerSpec

\* The server beside a viewer that comes and goes, asks again and answers late does
\* what a server may do whose clients report anything (RES_DOMAIN, configAnswer).
THEOREM ServerKept == ViewerSpec => AnySpec
  <1>1. ViewerInit => Init
    BY DEF ViewerInit
  <1>2. SInv /\ [ViewerNext]_<<allVars, plan>> => [AnyStep]_vars
    BY StepIsServer
  <1> QED
    BY <1>1, <1>2, ServerInvariance, PTL DEF ViewerSpec, AnySpec

\* So it keeps every invariant of OtaServer, and tells the backend no false success,
\* while somebody answers its questions.
THEOREM ViewerIsServer == ViewerSpec => []IInv /\ SuccessIsTrue
  BY ServerKept, WhateverReported

-----------------------------------------------------------------------------
(* How a step of the server changes its state, and who it worked for. *)

\* The states that a handler goes through on its way to another.
Passed ==
  { "MR_PENDING", "MR_READY", "MR_DOWNLOAD", "MR_DOWNLOAD_ASK", "MR_RESUME_ASK", "MR_WAIT",
    "MR_DEPLOY", "MR_DEPLOY_ASK" }

\* The state has stayed, or has been left for another, perhaps after a state in between.
Moves ==
  \/ state' = state /\ lastState' = lastState
  \/ /\ lastState' \in {state} \cup Passed
     /\ state' # lastState'

\* The request is the one at hand, or a new one: an upgrade does not end with that.
Works ==
  \/ type' = type
  \/ type' = "TP_CANCEL"
  \/ ~Confirming /\ state' \notin Results

LEMMA SetStateMoves ==
  ASSUME NEW from \in {state} \cup Passed, NEW new, NEW before, NEW after,
         from = state \/ new # from,
         SetState(from, new, before, after)
  PROVE  Moves /\ state' = new
  BY DEF SetState, Moves

LEMMA FeedbackMoves ==
  ASSUME NEW finished, NEW from \in {state} \cup Passed, NEW j, NEW before, NEW message,
         NEW after, Feedback(finished, from, j, before, message, after)
  PROVE  Moves
  <1>1. PICK new \in {"MR_DONE_ASK", "MR_ERROR_ASK", "MR_IDLE"} :
          \E b : SetState(from, new, b, after)
    BY DEF Feedback
  <1>2. from = state \/ new # from
    BY DEF Passed
  <1> QED
    BY <1>1, <1>2, SetStateMoves

LEMMA TryFeedbackMoves ==
  ASSUME NEW finished, NEW j, NEW message, TryFeedback(finished, j, message)
  PROVE  Moves
  <1>1. CASE Answered
    BY <1>1 DEF TryFeedback, Moves
  <1>2. CASE ~Answered
    BY <1>2, FeedbackMoves DEF TryFeedback
  <1> QED
    BY <1>1, <1>2

\* The end of the timer's walk: the state in between is one of a selection.
LEMMA ConcludeMoves ==
  ASSUME NEW j, NEW feeds, NEW messages, Conclude(j, feeds, messages)
  PROVE  Moves
  <1>1. Selected(j) \in {state} \cup Passed
    BY DEF Selected, Passed
  <1>2. Released(j) \in {state} \cup Passed
    BY <1>1 DEF Released, Passed
  <1>3. \/ \E from \in {state} \cup Passed :
             \E finished, b, m : Feedback(finished, from, j, b, m, <<>>)
        \/ \E b, a : SetState(state, Released(j), b, a)
    BY <1>1, <1>2 DEF Conclude
  <1> QED
    BY <1>3, FeedbackMoves, SetStateMoves

LEMMA TimerMoves ==
  ASSUME NEW late, NEW silent, NEW overdue, ProcessDomains(late, silent, overdue)
  PROVE  Moves /\ type' = type
  <1>1. \/ \E j, b, m : Feedback(FALSE, state, j, b, m, <<>>)
        \/ \E j, b, m : Conclude(j, b, m)
    BY DEF ProcessDomains
  <1>2. Moves
    BY <1>1, FeedbackMoves, ConcludeMoves
  <1> QED
    BY <1>2 DEF ProcessDomains

LEMMA CancelMoves ==
  ASSUME NEW id, ReqCancel(id)
  PROVE  Moves /\ type' = "TP_CANCEL"
  <1>1. \/ \E finished, j, m, a : Feedback(finished, state, j, <<>>, m, a)
        \/ SetState(state, "MR_CANCEL_ASK", <<>>, <<>>)
    BY DEF ReqCancel
  <1>2. Moves
    BY <1>1, FeedbackMoves, SetStateMoves
  <1> QED
    BY <1>2 DEF ReqCancel

LEMMA AnswerMoves ==
  ASSUME NEW d, NEW r, NEW discovery, NEW answer, ResAnswer(d, r, discovery, answer)
  PROVE  Moves /\ type' = type
  <1>1. \E j, repeated : Accept(j, repeated) \/ Refuse(j, repeated) \/ OtherAnswer(j, repeated)
    BY DEF ResAnswer
  <1>2. ASSUME NEW j, NEW repeated, Accept(j, repeated) PROVE Moves
    <2>1. \E new, a : SetState(state, new, <<>>, a)
      BY <1>2 DEF Accept, Idle
    <2> QED
      BY <2>1, SetStateMoves
  <1>3. ASSUME NEW j, NEW repeated, Refuse(j, repeated) PROVE Moves
    <2>1. \/ TryFeedback(FALSE, j, repeated)
          \/ \E new : SetState(state, new, <<>>, <<>>)
      BY <1>3 DEF Refuse, Pending, Idle
    <2> QED
      BY <2>1, TryFeedbackMoves, SetStateMoves
  <1>4. ASSUME NEW j, NEW repeated, OtherAnswer(j, repeated) PROVE Moves
    BY <1>4 DEF OtherAnswer, Moves
  <1> QED
    BY <1>1, <1>2, <1>3, <1>4 DEF ResAnswer

LEMMA DomainMoves ==
  ASSUME NEW d, NEW r, NEW discovery, ResDomain(d, r, discovery)
  PROVE  UNCHANGED <<state, lastState, type>>
  BY DEF ResDomain, requestVars

\* A step of the server beside the viewer.
LEMMA ServerMoves ==
  ASSUME ServerStep \/ Heartbeat \/ ServerAnswer
  PROVE  Moves /\ Works
  <1>1. ASSUME UNCHANGED <<state, lastState, type>> PROVE Moves /\ Works
    BY <1>1 DEF Moves, Works
  <1>2. CASE ServerAnswer \/ Heartbeat
    BY <1>1, <1>2, AnswerMoves, DomainMoves DEF ServerAnswer, Heartbeat, Works
  <1>3. CASE ServerStep
    <2>1. CASE ResInit \/ ResDownloadDone \/ ResVerifyDone \/ ResDistributeDone \/ RetryDownload
               \/ ReqPull(TRUE) \/ ReqIdle
      <3>1. \E new, b, a : SetState(state, new, b, a)
        BY <2>1 DEF ResInit, Idle, ResDownloadDone, ResVerifyDone, ResDistributeDone, PhaseDone,
                    RetryDownload, ReqPull, ReqIdle
      <3>2. type' = type
        BY <2>1 DEF ResInit, ResDownloadDone, ResVerifyDone, ResDistributeDone, PhaseDone,
                    RetryDownload, ReqPull, ReqIdle
      <3> QED
        BY <3>1, <3>2, SetStateMoves DEF Works
    <2>2. CASE GiveUp
      BY <2>2, TryFeedbackMoves DEF GiveUp, Works
    <2>3. CASE \E d, r : ResDomain(d, r, FALSE)
      BY <1>1, <2>3, DomainMoves
    <2>4. CASE TimerStep
      BY <2>4, TimerMoves DEF TimerStep, Works
    <2>5. CASE \E u : ReqUpgrade(u)
      <3>1. ~Confirming /\ SetState(state, "MR_PENDING", <<>>, <<>>)
        BY <2>5 DEF ReqUpgrade, Pending
      <3> QED
        BY <3>1, SetStateMoves DEF Works, Results
    <2>6. CASE \E i : ReqCancel(i)
      BY <2>6, CancelMoves DEF Works
    <2> QED
      BY <1>3, <2>1, <2>2, <2>3, <2>4, <2>5, <2>6 DEF ServerStep, ResError
  <1> QED
    BY <1>2, <1>3
-----------------------------------------------------------------------------
(* What is under way: details that are honest of a cancellation. *)

Cancelling == {"MR_CANCEL", "MR_CANCEL_ASK"}

\* Who tells of a result after a cancellation worked on that.
Honest(detail) ==
  detail.state \in Results /\ detail.last \in Cancelling => detail.request = "TP_CANCEL"

AnyDetail == [state : ServerState, last : ServerState, request : FeedType]
HonestDetail == {detail \in AnyDetail : Honest(detail)}
HonestCall == [detail : HonestDetail, stateChanged : BOOLEAN]

AnyWindow ==
  [ text : {<<>>} \cup {"Cancel", "Upgrade", "Confirm", "Speed"} \X ServerState,
    accept : BOOLEAN, reject : BOOLEAN, request : FeedType ]

HonestWindow(shown) ==
  shown.text # <<>> /\ shown.text[1] = "Cancel" => shown.request = "TP_CANCEL"

Queues ==
  /\ wire \in Seq(HonestDetail) /\ calls \in Seq(HonestCall)
  /\ serverState \in ServerState /\ connected \in BOOLEAN
  /\ window \in AnyWindow /\ HonestWindow(window)

\* The server could tell of its state and be honest.
ServerHonest == Honest(Detail(state, lastState, type))

\* The last detail under way, or the state that the client knows, is the server's.
Told ==
  connected /\ ~needDiscovery =>
    state = IF wire = <<>> THEN serverState ELSE wire[Len(wire)].state

\* The window that state s makes: the answers to its question, or a speed.
Shows(shown, s) ==
  /\ shown.accept <=> s \in mrStateIsAsk
  /\ shown.reject <=> s \in mrStateIsAsk \ Results
  /\ shown.text # <<>> => shown.text[2] = s
  /\ shown.accept => shown.text[2] = s

\* The calls queue up from the state that the window shows to the one that the client
\* knows, and each says whether it changes the state.
Before(i, s) == IF i = 1 THEN s ELSE calls[i - 1].detail.state
Chain(s) ==
  /\ Shows(window, s)
  /\ \A i \in 1 .. Len(calls) : calls[i].stateChanged <=> calls[i].detail.state # Before(i, s)
  /\ serverState = Before(Len(calls) + 1, s)

VInv ==
  SInv /\ Queues /\ ServerHonest /\ Told /\ \E s \in ServerState : Chain(s)

LEMMA InitVInv == ViewerInit => VInv
  <1> SUFFICES ASSUME ViewerInit PROVE VInv
    OBVIOUS
  <1>1. SInv
    BY InitSInv
  <1>2. "MR_OFFLINE" \in ServerState /\ "TP_UNKNOWN" \in FeedType
    BY DEF ServerState, FeedType
  <1>3. Queues
    BY <1>2 DEF ViewerInit, Queues, AnyWindow, HonestWindow
  <1>4. ServerHonest /\ Told
    BY DEF ViewerInit, Init, ServerHonest, Honest, Detail, Results, Told
  <1>5. Chain("MR_OFFLINE")
    BY DEF ViewerInit, Chain, Shows, Before, mrStateIsAsk, Results
  <1> QED
    BY <1>1, <1>2, <1>3, <1>4, <1>5 DEF VInv

\* The server stays honest: only a cancellation ends after one.
LEMMA HonestMoves ==
  ASSUME IInv, ServerHonest, Moves, Works
  PROVE  ServerHonest'
  <1>1. Honest(Detail(state, lastState, type))
    BY DEF ServerHonest
  <1>2. state \in Cancelling => type = "TP_CANCEL"
    BY DEF IInv, CancelUnderway, Cancelling
  <1>3. SUFFICES ASSUME state' \in Results, lastState' \in Cancelling PROVE type' = "TP_CANCEL"
    BY DEF ServerHonest, Honest, Detail
  <1>4. Passed \cap Cancelling = {}
    BY DEF Passed, Cancelling
  <1>5. type = "TP_CANCEL" /\ (state' = state => Confirming)
    BY <1>1, <1>2, <1>3, <1>4 DEF Moves, Honest, Detail, Confirming, Results
  <1> QED
    BY <1>3, <1>5 DEF Works

\* What the server tells of a step is honest, and ends with the state it is in.
LEMMA DetailsEffect ==
  ASSUME IInv, IInv', ServerHonest', Moves
  PROVE  /\ Details \in Seq(HonestDetail)
         /\ Details = <<>> => state' = state
         /\ Details # <<>> => Details[Len(Details)].state = state'
  <1> DEFINE now == Detail(state', lastState', type')
             between == Detail(lastState', state, type')
  <1>1. /\ {state, lastState, state', lastState'} \subseteq ServerState
        /\ type' \in FeedType
    BY DEF IInv, TypeOK
  <1>2. now \in HonestDetail /\ now.state = state'
    BY <1>1 DEF ServerHonest, HonestDetail, AnyDetail, Detail
  <1>3. CASE state' = state /\ lastState' = lastState
    BY <1>2, <1>3 DEF Details
  <1>4. CASE ~(state' = state /\ lastState' = lastState) /\ lastState' = state
    BY <1>2, <1>4 DEF Details
  <1>5. CASE ~(state' = state /\ lastState' = lastState) /\ lastState' # state
    <2>1. lastState' \notin Results
      BY <1>5 DEF Moves, Passed, Results
    <2>2. between \in HonestDetail
      BY <1>1, <2>1 DEF HonestDetail, AnyDetail, Detail, Honest
    <2>3. Details = <<between, now>>
      BY <1>5 DEF Details
    <2> HIDE DEF between, now
    <2> QED
      BY <1>2, <2>2, <2>3
  <1> QED
    BY <1>3, <1>4, <1>5

\* What is behind the end of a queue of details is its new end.
LEMMA LastOfConcat ==
  ASSUME NEW s \in Seq(HonestDetail), NEW t \in Seq(HonestDetail)
  PROVE  /\ s \o t \in Seq(HonestDetail)
         /\ t = <<>> => s \o t = s
         /\ t # <<>> => s \o t # <<>> /\ (s \o t)[Len(s \o t)] = t[Len(t)]
  <1>1. /\ s \o t \in Seq(HonestDetail) /\ Len(s \o t) = Len(s) + Len(t)
        /\ \A i \in 1 .. Len(s) + Len(t) :
             (s \o t)[i] = IF i <= Len(s) THEN s[i] ELSE t[i - Len(s)]
    BY ConcatProperties
  <1>2. Len(s) \in Nat /\ Len(t) \in Nat
    BY LenProperties
  <1>3. t # <<>> => Len(t) > 0
    BY EmptySeq
  <1>4. ASSUME t # <<>> PROVE s \o t # <<>> /\ (s \o t)[Len(s \o t)] = t[Len(t)]
    <2>1. Len(s \o t) > 0 /\ Len(s \o t) \in 1 .. Len(s) + Len(t) /\ ~(Len(s \o t) <= Len(s))
      BY <1>1, <1>2, <1>3, <1>4
    <2>2. s \o t # <<>>
      BY <2>1, EmptySeq
    <2> QED
      BY <1>1, <1>2, <2>1, <2>2
  <1>5. t = <<>> => s \o t = s
    BY ConcatEmptySeq
  <1> QED
    BY <1>1, <1>4, <1>5
-----------------------------------------------------------------------------
(* The steps. *)

\* A step of the server leaves the client and the window alone, and tells at the end of
\* the queue of the state it comes to.
LEMMA ServerVInv ==
  ASSUME VInv, SInv', ServerStep \/ Heartbeat \/ ServerAnswer
  PROVE  VInv'
  <1>1. Moves /\ Works
    BY ServerMoves
  <1>2. ServerHonest'
    BY <1>1, HonestMoves DEF VInv, SInv
  <1>3. /\ Details \in Seq(HonestDetail)
        /\ Details = <<>> => state' = state
        /\ Details # <<>> => Details[Len(Details)].state = state'
    BY <1>1, <1>2, DetailsEffect DEF VInv, SInv
  <1>4. UNCHANGED <<connected, serverState, calls, window>>
    BY DEF ServerStep, Heartbeat, ServerAnswer, clientVars, windowVars
  <1>5. wire \in Seq(HonestDetail) /\ connected \in BOOLEAN
    BY DEF VInv, Queues
  <1>6. PICK more \in Seq(HonestDetail) :
          /\ Tell(more)
          /\ more = <<>> => needDiscovery' = needDiscovery
          /\ more # <<>> => more[Len(more)].state = state'
    <2>1. CASE Heartbeat /\ needDiscovery
      <3> DEFINE now == Detail(state, lastState, type)
      <3>1. now \in HonestDetail
        BY DEF VInv, SInv, IInv, TypeOK, ServerHonest, HonestDetail, AnyDetail, Detail
      <3>2. Tell(<<now>>) /\ state' = state /\ now.state = state
        BY <2>1, DomainMoves DEF Heartbeat, Detail
      <3> HIDE DEF now
      <3>3. <<now>> \in Seq(HonestDetail) /\ <<now>> # <<>>
            /\ <<now>>[Len(<<now>>)].state = state'
        BY <3>1, <3>2
      <3> QED
        BY <3>2, <3>3
    <2>2. CASE ~(Heartbeat /\ needDiscovery)
      <3>1. Tell(<<>>) /\ needDiscovery' = needDiscovery
        <4>1. CASE Heartbeat
          BY <2>2, <4>1 DEF Heartbeat, VInv, SInv, HandsOver
        <4>2. CASE ServerStep \/ ServerAnswer
          BY <4>2 DEF ServerStep, ServerAnswer, clientVars
        <4> QED
          BY <4>1, <4>2
      <3>2. <<>> \in Seq(HonestDetail)
        OBVIOUS
      <3> QED
        BY <3>1, <3>2
    <2> QED
      BY <2>1, <2>2
  <1>7. wire' = IF connected THEN (wire \o Details) \o more ELSE wire
    BY <1>6 DEF Tell
  <1> DEFINE told == Details
             front == wire \o told
  <1> HIDE DEF told
  <1>8. /\ told \in Seq(HonestDetail)
        /\ told = <<>> => state' = state
        /\ told # <<>> => told[Len(told)].state = state'
        /\ wire' = IF connected THEN front \o more ELSE wire
    BY <1>3, <1>7 DEF told
  <1>9. /\ front \in Seq(HonestDetail)
        /\ told = <<>> => front = wire
        /\ told # <<>> => front # <<>> /\ front[Len(front)] = told[Len(told)]
    BY <1>5, <1>8, LastOfConcat
  <1> HIDE DEF front
  <1>10. /\ front \o more \in Seq(HonestDetail)
         /\ more = <<>> => front \o more = front
         /\ more # <<>> => front \o more # <<>>
                           /\ (front \o more)[Len(front \o more)] = more[Len(more)]
    BY <1>6, <1>9, LastOfConcat
  <1>11. Queues'
    <2>1. wire' \in Seq(HonestDetail)
      BY <1>5, <1>8, <1>10
    <2> QED
      BY <1>4, <2>1 DEF VInv, Queues
  <1>12. Told'
    <2> SUFFICES ASSUME connected', ~needDiscovery'
                 PROVE state' = IF wire' = <<>> THEN serverState' ELSE wire'[Len(wire')].state
      BY DEF Told
    <2>1. connected /\ wire' = front \o more
      BY <1>4, <1>8
    <2>2. CASE more # <<>>
      BY <1>6, <1>10, <2>1, <2>2
    <2>3. CASE more = <<>> /\ told # <<>>
      BY <1>8, <1>9, <1>10, <2>1, <2>3
    <2>4. CASE more = <<>> /\ told = <<>>
      <3>1. wire' = wire /\ state' = state /\ ~needDiscovery
        BY <1>6, <1>8, <1>9, <1>10, <2>1, <2>4
      <3> QED
        BY <1>4, <2>1, <3>1 DEF VInv, Told
    <2> QED
      BY <2>2, <2>3, <2>4
  <1>13. ASSUME NEW s, Chain(s) PROVE Chain(s)'
    BY <1>4, <1>13 DEF Chain, Before
  <1> QED
    BY <1>2, <1>11, <1>12, <1>13 DEF VInv

\* The calls after one more: the chain goes on from the state that the client knew.
LEMMA AppendChain ==
  ASSUME NEW s, Chain(s), Queues, NEW detail \in HonestDetail,
         calls' = Append(calls, Call(detail, detail.state # serverState)),
         serverState' = detail.state, window' = window
  PROVE  Chain(s)' /\ calls' \in Seq(HonestCall)
  <1> DEFINE call == Call(detail, detail.state # serverState)
  <1>1. /\ call \in HonestCall /\ call.detail = detail
        /\ call.stateChanged <=> detail.state # serverState
    BY DEF Call, HonestCall
  <1>2. calls \in Seq(HonestCall) /\ calls' = Append(calls, call)
    BY DEF Queues
  <1> HIDE DEF call
  <1>3. /\ calls' \in Seq(HonestCall) /\ Len(calls') = Len(calls) + 1 /\ Len(calls) \in Nat
        /\ calls'[Len(calls) + 1] = call
        /\ \A i \in 1 .. Len(calls) : calls'[i] = calls[i]
    BY <1>1, <1>2, AppendProperties, LenProperties
  <1>4. \A i \in 1 .. Len(calls) + 1 : Before(i, s)' = Before(i, s)
    BY <1>3 DEF Before
  <1>5. Before(Len(calls) + 1, s)' = detail.state
    BY <1>1, <1>3, LenProperties DEF Before
  <1>6. \A i \in 1 .. Len(calls') :
          calls'[i].stateChanged <=> calls'[i].detail.state # Before(i, s)'
    <2> TAKE i \in 1 .. Len(calls')
    <2>1. CASE i \in 1 .. Len(calls)
      BY <1>3, <1>4, <2>1 DEF Chain
    <2>2. CASE i = Len(calls) + 1
      BY <1>1, <1>3, <1>4, <2>2 DEF Chain
    <2> QED
      BY <1>3, <2>1, <2>2
  <1>7. Shows(window', s)
    BY DEF Chain
  <1> QED
    BY <1>3, <1>5, <1>6, <1>7 DEF Chain

LEMMA ReqDetailVInv ==
  ASSUME VInv, SInv', ReqDetail
  PROVE  VInv'
  <1> DEFINE head == Head(wire)
  <1>1. wire # <<>> /\ wire \in Seq(HonestDetail)
    BY DEF ReqDetail, VInv, Queues
  <1>2. /\ head \in HonestDetail /\ head = wire[1]
        /\ Tail(wire) \in Seq(HonestDetail) /\ Len(Tail(wire)) = Len(wire) - 1
        /\ \A i \in 1 .. Len(Tail(wire)) : Tail(wire)[i] = wire[i + 1]
        /\ Len(wire) \in Nat \ {0}
    BY <1>1, HeadTailProperties, LenProperties, EmptySeq
  <1> HIDE DEF head
  <1>3. /\ wire' = Tail(wire) /\ serverState' = head.state
        /\ calls' = Append(calls, Call(head, head.state # serverState))
        /\ UNCHANGED <<vars, connected, needDiscovery, window>>
    BY DEF ReqDetail, head
  <1>4. head.state \in ServerState
    BY <1>2 DEF HonestDetail, AnyDetail
  <1>5. Queues
    BY DEF VInv
  <1>6. PICK s \in ServerState : Chain(s)
    BY DEF VInv
  <1>7. Chain(s)' /\ calls' \in Seq(HonestCall)
    BY <1>2, <1>3, <1>5, <1>6, AppendChain
  <1>8. Queues'
    BY <1>2, <1>3, <1>4, <1>5, <1>7 DEF Queues
  <1>9. ServerHonest'
    BY <1>3 DEF VInv, ServerHonest, vars, requestVars
  <1>10. Told'
    <2> SUFFICES ASSUME connected', ~needDiscovery'
                 PROVE state' = IF wire' = <<>> THEN serverState' ELSE wire'[Len(wire')].state
      BY DEF Told
    <2>1. state' = state /\ state = wire[Len(wire)].state
      BY <1>1, <1>3 DEF VInv, Told, vars, requestVars
    <2>2. CASE wire' = <<>>
      <3>1. Len(wire) = 1
        BY <1>2, <1>3, <2>2
      <3> QED
        BY <1>2, <1>3, <2>1, <2>2, <3>1
    <2>3. CASE wire' # <<>>
      <3>1. Len(wire') \in 1 .. Len(Tail(wire)) /\ Len(wire') + 1 = Len(wire)
        BY <1>2, <1>3, <2>3, EmptySeq
      <3> QED
        BY <1>2, <1>3, <2>1, <2>3, <3>1
    <2> QED
      BY <2>2, <2>3
  <1> QED
    BY <1>7, <1>8, <1>9, <1>10 DEF VInv

LEMMA AwayVInv ==
  ASSUME VInv, SInv', Away
  PROVE  VInv'
  <1> DEFINE away == Detail("MR_OFFLINE", serverState, "TP_UNKNOWN")
  <1>1. UNCHANGED <<vars, connected, wire, window>> /\ ~connected /\ serverState' = "MR_OFFLINE"
    BY DEF Away
  <1>2. Queues /\ serverState \in ServerState /\ "MR_OFFLINE" \in ServerState
    BY DEF VInv, Queues, ServerState
  <1>3. away \in HonestDetail /\ away.state = "MR_OFFLINE"
    BY <1>2 DEF HonestDetail, AnyDetail, Detail, Honest, Results, FeedType
  <1>4. calls' = IF serverState = "MR_OFFLINE" THEN calls ELSE Append(calls, Call(away, TRUE))
    BY DEF Away
  <1> HIDE DEF away
  <1>5. PICK s \in ServerState : Chain(s)
    BY DEF VInv
  <1>6. Chain(s)' /\ calls' \in Seq(HonestCall)
    <2>1. CASE serverState = "MR_OFFLINE"
      BY <1>1, <1>2, <1>4, <1>5, <2>1 DEF Chain, Before, Queues
    <2>2. CASE serverState # "MR_OFFLINE"
      <3>1. (away.state # serverState) = TRUE
        BY <1>3, <2>2
      <3>2. calls' = Append(calls, Call(away, away.state # serverState))
        BY <1>4, <2>2, <3>1
      <3> QED
        BY <1>1, <1>2, <1>3, <1>5, <3>2, AppendChain
    <2> QED
      BY <2>1, <2>2
  <1>7. Queues'
    BY <1>1, <1>2, <1>6 DEF Queues
  <1>8. ServerHonest' /\ Told'
    BY <1>1 DEF VInv, ServerHonest, Told, vars, requestVars
  <1> QED
    BY <1>6, <1>7, <1>8 DEF VInv

\* A lost connection loses what is behind in the queue; one that comes back asks anew.
LEMMA ConnectionVInv ==
  ASSUME VInv, SInv', Disconnect \/ Connect
  PROVE  VInv'
  <1>1. /\ UNCHANGED <<needDiscovery, serverState, windowVars>>
        /\ UNCHANGED vars \/ Restart
    BY DEF Disconnect, Connect
  <1>2. wire' \in Seq(HonestDetail) /\ connected' \in BOOLEAN
    <2>1. \/ wire' = wire
          \/ \E n \in 0 .. Len(wire) : wire' = SubSeq(wire, 1, n)
      BY DEF Disconnect, Connect
    <2>2. ASSUME NEW n \in 0 .. Len(wire) PROVE SubSeq(wire, 1, n) \in Seq(HonestDetail)
      <3> DEFINE H == HonestDetail
      <3>1. wire \in Seq(H)
        BY DEF VInv, Queues
      <3> HIDE DEF H
      <3>2. Len(wire) \in Nat /\ \A i \in 1 .. n : wire[i] \in H
        BY <3>1, LenProperties, ElementOfSeq
      <3>3. SubSeq(wire, 1, n) \in Seq(H)
        BY <3>1, <3>2, SubSeqProperties
      <3> QED
        BY <3>3 DEF H
    <2> QED
      BY <2>1, <2>2 DEF VInv, Queues, Disconnect, Connect
  <1>3. Queues'
    BY <1>1, <1>2 DEF VInv, Queues, windowVars
  <1>4. ServerHonest'
    <2>1. CASE UNCHANGED vars
      BY <2>1 DEF VInv, ServerHonest, vars, requestVars
    <2>2. CASE Restart
      BY <2>2 DEF Restart, ServerHonest, Honest, Detail, Results
    <2> QED
      BY <1>1, <2>1, <2>2
  <1>5. Told'
    BY DEF Told, Disconnect, Connect
  <1>6. ASSUME NEW s, Chain(s) PROVE Chain(s)'
    BY <1>1, <1>6 DEF Chain, Before, windowVars
  <1> QED
    BY <1>3, <1>4, <1>5, <1>6 DEF VInv

\* A call makes the window that its state calls for.
LEMMA ShownShows ==
  ASSUME NEW call \in HonestCall, NEW s, window \in AnyWindow, HonestWindow(window),
         Shows(window, s), call.stateChanged <=> call.detail.state # s
  PROVE  /\ Shows(Shown(call), call.detail.state)
         /\ Shown(call) \in AnyWindow /\ HonestWindow(Shown(call))
  <1> DEFINE detail == call.detail
             prompt == IF call.stateChanged THEN Prompt(detail) ELSE window
  <1>1. /\ detail \in AnyDetail /\ Honest(detail) /\ detail.state \in ServerState
        /\ detail.request \in FeedType
    BY DEF HonestCall, HonestDetail, AnyDetail
  <1>2. Outcome(detail) \in {"Cancel", "Upgrade"} \X ServerState
        /\ Outcome(detail)[2] = detail.state
    BY <1>1 DEF Outcome
  <1>3. Outcome(detail)[1] = "Cancel" /\ detail.state \in Results => detail.request = "TP_CANCEL"
    BY <1>1 DEF Outcome, Honest, Cancelling
  <1>4. /\ Prompt(detail) \in AnyWindow /\ HonestWindow(Prompt(detail))
        /\ Shows(Prompt(detail), detail.state)
    <2>1. CASE detail.state \in Results
      <3>1. detail.state \in mrStateIsAsk
        BY <2>1 DEF Results, mrStateIsAsk
      <3>2. Prompt(detail) = [ text |-> Outcome(detail), accept |-> TRUE, reject |-> FALSE,
                               request |-> detail.request ]
        BY <2>1, <3>1 DEF Prompt
      <3> QED
        BY <1>1, <1>2, <1>3, <2>1, <3>1, <3>2 DEF AnyWindow, HonestWindow, Shows
    <2>2. CASE detail.state \in mrStateIsAsk \ Results
      <3>1. Prompt(detail) = [ text |-> <<"Confirm", detail.state>>, accept |-> TRUE,
                               reject |-> TRUE, request |-> detail.request ]
        BY <2>2 DEF Prompt
      <3> QED
        BY <1>1, <2>2, <3>1 DEF AnyWindow, HonestWindow, Shows
    <2>3. CASE detail.state \notin mrStateIsAsk
      <3>1. Prompt(detail) = [ text |-> <<>>, accept |-> FALSE, reject |-> FALSE,
                               request |-> detail.request ]
        BY <2>3 DEF Prompt
      <3> QED
        BY <1>1, <2>3, <3>1 DEF AnyWindow, HonestWindow, Shows
    <2> QED
      BY <2>1, <2>2, <2>3
  <1>5. prompt \in AnyWindow /\ HonestWindow(prompt) /\ Shows(prompt, detail.state)
    BY <1>4
  <1>6. Shown(call) = IF detail.state \in Speeds
                      THEN [prompt EXCEPT !.text = <<"Speed", detail.state>>]
                      ELSE prompt
    BY DEF Shown
  <1>7. Speeds \cap mrStateIsAsk = {}
    BY DEF Speeds, mrStateIsAsk
  <1> HIDE DEF detail, prompt
  <1>8. /\ Shows(Shown(call), detail.state)
        /\ Shown(call) \in AnyWindow /\ HonestWindow(Shown(call))
    <2>1. CASE detail.state \in Speeds
      <3> DEFINE faster == [prompt EXCEPT !.text = <<"Speed", detail.state>>]
      <3>1. Shown(call) = faster
        BY <1>6, <2>1
      <3>2. faster = [ text |-> <<"Speed", detail.state>>, accept |-> prompt.accept,
                       reject |-> prompt.reject, request |-> prompt.request ]
        BY <1>5 DEF AnyWindow
      <3> HIDE DEF faster
      <3>3. faster \in AnyWindow /\ HonestWindow(faster)
        BY <1>1, <1>5, <3>2 DEF AnyWindow, HonestWindow
      <3>4. Shows(faster, detail.state)
        BY <1>5, <3>2 DEF Shows
      <3> QED
        BY <3>1, <3>3, <3>4
    <2>2. CASE detail.state \notin Speeds
      BY <1>5, <1>6, <2>2
    <2> QED
      BY <2>1, <2>2
  <1> QED
    BY <1>8 DEF detail

\* The calls after the first is processed: the chain begins at its state.
LEMMA ProcessVInv ==
  ASSUME VInv, SInv', ProcessVariant
  PROVE  VInv'
  <1> DEFINE head == Head(calls)
  <1>1. calls # <<>> /\ calls \in Seq(HonestCall)
    BY DEF ProcessVariant, VInv, Queues
  <1>2. /\ head \in HonestCall /\ head = calls[1]
        /\ Tail(calls) \in Seq(HonestCall) /\ Len(Tail(calls)) = Len(calls) - 1
        /\ \A i \in 1 .. Len(Tail(calls)) : Tail(calls)[i] = calls[i + 1]
        /\ Len(calls) \in Nat \ {0}
    BY <1>1, HeadTailProperties, LenProperties, EmptySeq
  <1> HIDE DEF head
  <1>3. /\ calls' = Tail(calls) /\ window' = Shown(head)
        /\ UNCHANGED <<vars, clientVars, wire>>
    BY DEF ProcessVariant, head
  <1>4. PICK s \in ServerState : Chain(s)
    BY DEF VInv
  <1>5. head.stateChanged <=> head.detail.state # s
    <2>1. 1 \in 1 .. Len(calls) /\ Before(1, s) = s
      BY <1>2 DEF Before
    <2> QED
      BY <1>2, <1>4, <2>1 DEF Chain
  <1>6. /\ Shows(window', head.detail.state)
        /\ window' \in AnyWindow /\ HonestWindow(window')
    BY <1>2, <1>3, <1>4, <1>5, ShownShows DEF VInv, Queues, Chain
  <1>7. PICK t \in ServerState : t = head.detail.state
    BY <1>2 DEF HonestCall, HonestDetail, AnyDetail
  <1>8. \A i \in 1 .. Len(calls) : Before(i, t)' = Before(i + 1, s)
    <2> TAKE i \in 1 .. Len(calls)
    <2>1. CASE i = 1
      <3>1. Before(i, t)' = t /\ Before(i + 1, s) = calls[1].detail.state
        BY <2>1 DEF Before
      <3> QED
        BY <1>2, <1>7, <3>1
    <2>2. CASE i # 1
      <3>1. i - 1 \in 1 .. Len(Tail(calls)) /\ i \in Nat /\ i + 1 # 1
            /\ (i + 1) - 1 = i /\ (i - 1) + 1 = i
        BY <1>2, <2>2
      <3>2. calls'[i - 1] = calls[i]
        BY <1>2, <1>3, <3>1
      <3> QED
        BY <2>2, <3>1, <3>2 DEF Before
    <2> QED
      BY <2>1, <2>2
  <1>9. Chain(t)'
    <2>1. serverState' = Before(Len(calls) + 1, t)'
      <3>1. PICK n \in Nat : n = Len(calls)
        BY <1>2
      <3>2. n \in 1 .. Len(calls) /\ Len(calls') + 1 = n
        BY <1>2, <1>3, <3>1
      <3>3. serverState' = Before(n + 1, s)
        BY <1>3, <1>4, <3>1 DEF Chain, clientVars
      <3>4. serverState' = Before(n, t)'
        BY <1>8, <3>2, <3>3
      <3> QED
        BY <3>2, <3>4 DEF Before
    <2>2. \A i \in 1 .. Len(calls') :
            calls'[i].stateChanged <=> calls'[i].detail.state # Before(i, t)'
      <3> TAKE i \in 1 .. Len(calls')
      <3>1. i \in 1 .. Len(Tail(calls)) /\ i \in 1 .. Len(calls) /\ i + 1 \in 1 .. Len(calls)
        BY <1>2, <1>3
      <3>2. calls'[i] = calls[i + 1]
        BY <1>2, <1>3, <3>1
      <3>3. calls[i + 1].stateChanged <=> calls[i + 1].detail.state # Before(i + 1, s)
        BY <1>4, <3>1 DEF Chain
      <3>4. Before(i, t)' = Before(i + 1, s)
        BY <1>8, <3>1
      <3> QED
        BY <3>2, <3>3, <3>4
    <2>3. Shows(window', t)
      BY <1>6, <1>7
    <2> QED
      BY <2>1, <2>2, <2>3 DEF Chain
  <1>10. Queues'
    BY <1>2, <1>3, <1>6 DEF VInv, Queues, clientVars
  <1>11. ServerHonest' /\ Told'
    BY <1>3 DEF VInv, ServerHonest, Told, vars, requestVars, clientVars
  <1> QED
    BY <1>9, <1>10, <1>11 DEF VInv

LEMMA StillVInv ==
  ASSUME VInv, SInv', Click \/ UNCHANGED <<allVars, plan>>
  PROVE  VInv'
  <1>1. UNCHANGED <<vars, clientVars, wire, windowVars>>
    BY DEF Click, allVars
  <1>2. Queues' /\ ServerHonest' /\ Told'
    BY <1>1 DEF VInv, Queues, ServerHonest, Told, vars, requestVars, clientVars, windowVars
  <1>3. ASSUME NEW s, Chain(s) PROVE Chain(s)'
    BY <1>1, <1>3 DEF Chain, Before, clientVars, windowVars
  <1> QED
    BY <1>2, <1>3 DEF VInv

LEMMA NextVInv ==
  ASSUME VInv, [ViewerNext]_<<allVars, plan>>
  PROVE  VInv'
  <1>1. SInv'
    BY StepSInv DEF VInv
  <1> QED
    BY <1>1, ServerVInv, ReqDetailVInv, AwayVInv, ConnectionVInv, ProcessVInv, StillVInv
    DEF ViewerNext

LEMMA ViewerInvariance == ViewerSpec => []VInv
  BY InitVInv, NextVInv, PTL DEF ViewerSpec

-----------------------------------------------------------------------------
(* The properties. *)

LEMMA VInvSettles == VInv => PromptSettles
  <1> SUFFICES ASSUME VInv, connected, ~needDiscovery, wire = <<>>, calls = <<>>
               PROVE  /\ window.accept <=> state \in mrStateIsAsk
                      /\ window.reject <=> state \in mrStateIsAsk \ Results
                      /\ window.accept => window.text[2] = state
                      /\ window.text # <<>> => window.text[2] = state
    BY DEF PromptSettles
  <1>1. PICK s \in ServerState : Chain(s)
    BY DEF VInv
  <1>2. Len(calls) = 0
    OBVIOUS
  <1>3. serverState = s
    BY <1>1, <1>2 DEF Chain, Before
  <1>4. state = serverState
    BY DEF VInv, Told
  <1> QED
    BY <1>1, <1>3, <1>4 DEF Chain, Shows

\* When nothing is under way the window offers the answers the server waits for, and
\* none else, however many details, cancellations and lost connections have come before
\* (setState, REQ_DETAIL, processDetail).
THEOREM PromptsSettle == ViewerSpec => []PromptSettles
  BY ViewerInvariance, VInvSettles, PTL

\* What the window tells of a cancellation was one (processDetail, feedback).
THEOREM CancelsToldAreCancels == ViewerSpec => []CancelToldIsCancel
  <1>1. VInv => CancelToldIsCancel
    BY DEF VInv, Queues, HonestWindow, CancelToldIsCancel
  <1> QED
    BY <1>1, ViewerInvariance, PTL
=============================================================================
