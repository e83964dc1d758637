-------------------------- MODULE OtaClientProofs ---------------------------
(***************************************************************************)
(* Proofs about OtaClient, for every set of clients, upgrades and control  *)
(* messages.                                                               *)
(*                                                                         *)
(* A phase that a client reports is going on (PhaseUnderway).  That this   *)
(* is inductive needs three facts more: a client without a package has no  *)
(* worker and waits for none; the phases of the transfer are never those   *)
(* of a worker that deploys, so that an application which ends unheeded    *)
(* ends no phase; and a client is never offline or unknown to itself, so   *)
(* that a cancellation interrupts a state that is answered, or a phase.    *)
(***************************************************************************)
EXTENDS OtaClient, TLAPS, SequenceTheorems

\* Well formed, in the midst of a handler too.
Sound(c) ==
  /\ c \in Client
  /\ c.work = "none" <=> c.place = <<>>
  /\ c.package = NoId => c.work = "none" /\ ~Pending(c, Results)
  /\ c.state \notin {"WR_OFFLINE", "WR_UNKNOWN"}

Phases == {"WR_DOWNLOAD", "WR_VERIFY", "WR_PATCH", "WR_DEPLOY", "WR_CANCEL"}

\* The phase that client d reports is going on.
Going(d, c) ==
  c.state \in Phases =>
    Underway(c) \/ c.quit \/ (c.state = "WR_CANCEL" /\ d \notin CancelEnable)

\* Who downloads, verifies or patches does not deploy.
Fits(c) ==
  c.state \in {"WR_DOWNLOAD", "WR_VERIFY", "WR_PATCH"} => c.work \notin {"deploy", "install"}

Good(d, c) == Sound(c) /\ Going(d, c) /\ Fits(c)

IInv ==
  /\ client \in [Domain -> Client]
  /\ \A d \in Domain : Good(d, client[d])

-----------------------------------------------------------------------------
(* The operators on a client. *)

\* The queue when an event is added.
LEMMA PendingAppend ==
  ASSUME NEW c \in Client, NEW e \in ClientEvent, NEW x \in Client,
         x.queue = Append(c.queue, e)
  PROVE  Pending(x, Results) <=> Pending(c, Results) \/ e.event \in Results
  <1>1. /\ c.queue \in Seq(ClientEvent) /\ x.queue \in Seq(ClientEvent)
        /\ Len(c.queue) \in Nat /\ Len(x.queue) = Len(c.queue) + 1
        /\ DOMAIN c.queue = 1 .. Len(c.queue) /\ DOMAIN x.queue = 1 .. Len(c.queue) + 1
        /\ \A i \in 1 .. Len(c.queue) : x.queue[i] = c.queue[i]
        /\ x.queue[Len(c.queue) + 1] = e
    BY AppendProperties, LenProperties DEF Client
  <1> QED
    BY <1>1 DEF Pending

\* The first event is taken: only a result that is taken is waited for no more.
LEMMA PendingTail ==
  ASSUME NEW c \in Client, c.queue # <<>>, NEW x \in Client, x.queue = Tail(c.queue)
  PROVE  /\ Pending(x, Results) => Pending(c, Results)
         /\ Head(c.queue).event \notin Results => (Pending(c, Results) => Pending(x, Results))
         /\ Head(c.queue).event \in Results => Pending(c, Results)
         /\ Head(c.queue) \in ClientEvent
  <1>1. /\ c.queue \in Seq(ClientEvent) /\ x.queue \in Seq(ClientEvent)
        /\ Len(c.queue) \in Nat /\ Len(x.queue) = Len(c.queue) - 1 /\ Len(c.queue) # 0
        /\ DOMAIN c.queue = 1 .. Len(c.queue) /\ DOMAIN x.queue = 1 .. Len(c.queue) - 1
        /\ \A i \in 1 .. Len(c.queue) - 1 : x.queue[i] = c.queue[i + 1]
        /\ Head(c.queue) = c.queue[1] /\ Head(c.queue) \in ClientEvent
    BY HeadTailProperties, LenProperties DEF Client
  <1>2. ASSUME NEW i \in DOMAIN c.queue, c.queue[i].event \in Results,
               Head(c.queue).event \notin Results
        PROVE  Pending(x, Results)
    <2>1. i - 1 \in DOMAIN x.queue /\ x.queue[i - 1] = c.queue[(i - 1) + 1] /\ (i - 1) + 1 = i
      BY <1>1, <1>2
    <2> QED
      BY <1>2, <2>1 DEF Pending
  <1>3. ASSUME NEW i \in DOMAIN x.queue, x.queue[i].event \in Results
        PROVE  Pending(c, Results)
    <2>1. i + 1 \in DOMAIN c.queue /\ x.queue[i] = c.queue[i + 1]
      BY <1>1
    <2> QED
      BY <1>3, <2>1 DEF Pending
  <1> QED
    BY <1>1, <1>2, <1>3 DEF Pending

LEMMA MovedEffect ==
  ASSUME NEW c \in Client, NEW s \in ClientState
  PROVE  /\ Moved(c, s) \in Client
         /\ Moved(c, s).state = s
         /\ Moved(c, s).last = IF c.state = s THEN c.last ELSE c.state
         /\ Moved(c, s).work = c.work /\ Moved(c, s).place = c.place
         /\ Moved(c, s).package = c.package /\ Moved(c, s).id = c.id
         /\ Moved(c, s).queue = c.queue /\ Moved(c, s).disk = c.disk
         /\ Moved(c, s).version = c.version /\ Moved(c, s).patchNewFiles = c.patchNewFiles
         /\ Moved(c, s).hasCancelAction = c.hasCancelAction
         /\ s # "WR_IDLE" => Moved(c, s).quit = c.quit
  <1>1. CASE c.state = s
    BY <1>1 DEF Moved, Client
  <1>2. CASE c.state # s
    <2>1. Moved(c, s) = [c EXCEPT !.last = c.state, !.state = s,
                                  !.quit = c.quit /\ s # "WR_IDLE"]
      BY <1>2 DEF Moved
    <2>2. c.quit \in BOOLEAN /\ (c.quit /\ s # "WR_IDLE") \in BOOLEAN
      BY DEF Client
    <2>3. s # "WR_IDLE" => (c.quit /\ s # "WR_IDLE") = c.quit
      BY <2>2
    <2> DEFINE q == c.quit /\ s # "WR_IDLE"
    <2> HIDE DEF q
    <2>4. Moved(c, s) = [c EXCEPT !.last = c.state, !.state = s, !.quit = q]
      BY <2>1 DEF q
    <2>5. q \in BOOLEAN /\ (s # "WR_IDLE" => q = c.quit)
      BY <2>2, <2>3 DEF q
    <2> QED
      BY <1>2, <2>4, <2>5 DEF Client
  <1> QED
    BY <1>1, <1>2

LEMMA PostedEffect ==
  ASSUME NEW c \in Client, NEW e \in Results
  PROVE  /\ Posted(c, e) \in Client
         /\ Pending(Posted(c, e), Results)
         /\ Posted(c, e).state = c.state /\ Posted(c, e).work = c.work
         /\ Posted(c, e).place = c.place /\ Posted(c, e).package = c.package
  <1> DEFINE x == Posted(c, e)
  <1>1. [event |-> e] \in ClientEvent
    BY DEF ClientEvent, Results
  <1>2. Append(c.queue, [event |-> e]) \in Seq(ClientEvent)
    BY <1>1, AppendProperties DEF Client
  <1>3. /\ x \in Client /\ x.queue = Append(c.queue, [event |-> e])
        /\ x.state = c.state /\ x.work = c.work /\ x.place = c.place /\ x.package = c.package
    BY <1>2 DEF Posted, Client
  <1>4. Pending(x, Results)
    BY <1>1, <1>3, PendingAppend
  <1> QED
    BY <1>3, <1>4

LEMMA EndedEffect ==
  ASSUME NEW c \in Client
  PROVE  /\ Ended(c) \in Client
         /\ Ended(c).work = "none" /\ Ended(c).place = <<>>
         /\ Ended(c).state = c.state /\ Ended(c).last = c.last
         /\ Ended(c).package = c.package /\ Ended(c).id = c.id
         /\ Ended(c).queue = c.queue /\ Ended(c).quit = c.quit
         /\ Ended(c).version = c.version
  BY DEF Ended, Client, Work

LEMMA StoredEffect ==
  ASSUME NEW c \in Client, NEW x \in Content
  PROVE  /\ Stored(c, x) \in Client
         /\ Stored(c, x).state = c.state /\ Stored(c, x).last = c.last
         /\ Stored(c, x).package = c.package /\ Stored(c, x).id = c.id
         /\ Stored(c, x).queue = c.queue /\ Stored(c, x).quit = c.quit
         /\ Stored(c, x).version = c.version
  BY DEF Stored, Client

LEMMA StartedEffect ==
  ASSUME NEW c \in Client, c.package # NoId, NEW work \in Work \ {"none"}
  PROVE  /\ Started(c, work) \in Client
         /\ Started(c, work).work = work /\ Started(c, work).place # <<>>
         /\ Started(c, work).state = c.state /\ Started(c, work).package = c.package
  <1>1. <<c.id, c.package>> \in Place /\ <<c.id, c.package>> # <<>>
    BY DEF Client, Place
  <1> QED
    BY <1>1 DEF Started, Client
-----------------------------------------------------------------------------
(* The ends of the worker. *)

\* x is c without its worker.
Halted(c, x) ==
  /\ x \in Client
  /\ x.work = "none" /\ x.place = <<>>
  /\ x.state = c.state /\ x.package = c.package
  /\ Pending(c, Results) => Pending(x, Results)

LEMMA HaltedSound ==
  ASSUME NEW c, Sound(c), c.work # "none", NEW x, Halted(c, x)
  PROVE  Sound(x)
  BY DEF Sound, Halted

\* The worker ends on content y of its place, with or without a result.
LEMMA HaltedEnded ==
  ASSUME NEW c \in Client, NEW e \in Results
  PROVE  /\ Halted(c, Ended(c))
         /\ Halted(c, Posted(Ended(c), e)) /\ Pending(Posted(Ended(c), e), Results)
         /\ \A y \in Content :
              /\ Halted(c, Ended(Stored(c, y)))
              /\ Halted(c, Posted(Ended(Stored(c, y)), e))
              /\ Pending(Posted(Ended(Stored(c, y)), e), Results)
  <1>1. Halted(c, Ended(c))
    BY EndedEffect DEF Halted, Pending
  <1>2. Halted(c, Posted(Ended(c), e)) /\ Pending(Posted(Ended(c), e), Results)
    BY EndedEffect, PostedEffect DEF Halted
  <1>3. ASSUME NEW y \in Content
        PROVE  /\ Halted(c, Ended(Stored(c, y)))
               /\ Halted(c, Posted(Ended(Stored(c, y)), e))
               /\ Pending(Posted(Ended(Stored(c, y)), e), Results)
    <2> DEFINE s == Stored(c, y)
    <2>1. s \in Client /\ s.state = c.state /\ s.package = c.package /\ s.queue = c.queue
      BY StoredEffect
    <2>2. /\ Ended(s) \in Client
          /\ Ended(s).work = "none" /\ Ended(s).place = <<>>
          /\ Ended(s).state = s.state /\ Ended(s).package = s.package
          /\ Ended(s).queue = s.queue
      BY <2>1, EndedEffect
    <2> HIDE DEF s
    <2>3. Halted(c, Ended(s))
      BY <2>1, <2>2 DEF Halted, Pending
    <2>4. Halted(c, Posted(Ended(s), e)) /\ Pending(Posted(Ended(s), e), Results)
      BY <2>1, <2>2, PostedEffect DEF Halted
    <2> QED
      BY <2>3, <2>4 DEF s
  <1> QED
    BY <1>1, <1>2, <1>3

\* What the worker may set beside.
LEMMA HaltedExcept ==
  ASSUME NEW c, NEW x, Halted(c, x), NEW n \in Nat
  PROVE  /\ Halted(c, [x EXCEPT !.patchNewFiles = TRUE])
         /\ Halted(c, [x EXCEPT !.installed = n])
         /\ Pending(x, Results) => /\ Pending([x EXCEPT !.patchNewFiles = TRUE], Results)
                                   /\ Pending([x EXCEPT !.installed = n], Results)
  BY DEF Halted, Pending, Client

LEMMA GivesUpEffect ==
  ASSUME NEW c \in Client, c.work # "none" => c.place \in Place, NEW x \in GivesUp(c)
  PROVE  /\ Halted(c, x) /\ x.last = c.last /\ x.queue = c.queue
         /\ \A e \in Results : Halted(c, Posted(x, e)) /\ Pending(Posted(x, e), Results)
  <1>1. x = Ended(c) \/ \E y \in Content : x = Ended(Stored(c, y))
    BY DEF GivesUp, Leavings, Client, Content
  <1>2. PICK z \in Client : /\ x = Ended(z) /\ z.state = c.state /\ z.package = c.package
                            /\ z.last = c.last /\ z.queue = c.queue
    BY <1>1, StoredEffect
  <1>3. /\ x \in Client /\ x.work = "none" /\ x.place = <<>>
        /\ x.state = c.state /\ x.package = c.package
        /\ x.last = c.last /\ x.queue = c.queue
    BY <1>2, EndedEffect
  <1>4. Halted(c, x)
    BY <1>3 DEF Halted, Pending
  <1>5. ASSUME NEW e \in Results
        PROVE  Halted(c, Posted(x, e)) /\ Pending(Posted(x, e), Results)
    BY <1>3, PostedEffect DEF Halted
  <1> QED
    BY <1>3, <1>4, <1>5

LEMMA WorkEndsEffect ==
  ASSUME NEW c, Sound(c), NEW x \in WorkEnds(c)
  PROVE  /\ c.work # "none" /\ Halted(c, x) /\ Sound(x)
         /\ Pending(x, Results) \/ (c.work = "install" /\ c.state \notin {"WR_DEPLOY", "WR_CANCEL"})
  <1> DEFINE Ends == c.work # "none" /\ Halted(c, x) /\ Pending(x, Results)
  <1>1. /\ c \in Client
        /\ c.work # "none" => /\ c.place \in Place /\ c.disk[c.place] \in Content
                               /\ VersionOf[c.place[2]] \in Nat
    BY ClientAssumption DEF Sound, Client, Place
  <1>2. "full" \in Content
    BY DEF Content
  <1>3. {"RES_ERROR", "RES_DOWNLOAD", "RES_VERIFY", "RES_PATCH", "RES_DEPLOY_DONE",
         "RES_CANCEL_DONE"} \subseteq Results
    BY DEF Results
  <1>4. ASSUME NEW e \in Results, c.work # "none", x = Posted(Ended(c), e)
        PROVE  Ends
    BY <1>1, <1>4, HaltedEnded
  <1>5. ASSUME NEW e \in Results, NEW y \in Content, c.work # "none",
               x = Posted(Ended(Stored(c, y)), e)
        PROVE  Ends
    BY <1>1, <1>5, HaltedEnded
  <1>6. CASE x \in Succeeds(c)
    <2>1. ASSUME c.work = "download", x = Posted(Ended(Stored(c, "full")), "RES_DOWNLOAD")
          PROVE  Ends
      <3>1. "RES_DOWNLOAD" \in Results /\ "full" \in Content /\ c.work # "none"
        BY <1>2, <1>3, <2>1
      <3> QED
        BY <1>5, <2>1, <3>1
    <2>2. ASSUME c.work = "verify", x = Posted(Ended(c), "RES_VERIFY")
          PROVE  Ends
      <3>1. "RES_VERIFY" \in Results /\ c.work # "none"
        BY <1>3, <2>2
      <3> QED
        BY <1>4, <2>2, <3>1
    <2>3. ASSUME c.work = "patch",
                 x = [Posted(Ended(c), "RES_PATCH") EXCEPT !.patchNewFiles = TRUE]
          PROVE  Ends
      <3> DEFINE p == Posted(Ended(c), "RES_PATCH")
      <3>1. Halted(c, p) /\ Pending(p, Results)
        BY <1>1, <1>3, HaltedEnded
      <3>2. x = [p EXCEPT !.patchNewFiles = TRUE]
        BY <2>3
      <3> HIDE DEF p
      <3>3. Halted(c, x) /\ Pending(x, Results)
        BY <3>1, <3>2, HaltedExcept, 0 \in Nat
      <3> QED
        BY <2>3, <3>3
    <2>4. ASSUME c.work = "install",
                 x = [Posted(Ended(c), "RES_DEPLOY_DONE") EXCEPT
                        !.installed = VersionOf[c.place[2]]]
          PROVE  Ends
      <3> DEFINE p == Posted(Ended(c), "RES_DEPLOY_DONE")
                 n == VersionOf[c.place[2]]
      <3>1. Halted(c, p) /\ Pending(p, Results) /\ n \in Nat
        BY <1>1, <1>3, <2>4, HaltedEnded
      <3>2. x = [p EXCEPT !.installed = n]
        BY <2>4
      <3> HIDE DEF p, n
      <3>3. Halted(c, x) /\ Pending(x, Results)
        BY <3>1, <3>2, HaltedExcept
      <3> QED
        BY <2>4, <3>3
    <2>5. \/ c.work = "download" /\ x = Posted(Ended(Stored(c, "full")), "RES_DOWNLOAD")
          \/ c.work = "verify" /\ x = Posted(Ended(c), "RES_VERIFY")
          \/ /\ c.work = "patch"
             /\ x = [Posted(Ended(c), "RES_PATCH") EXCEPT !.patchNewFiles = TRUE]
          \/ /\ c.work = "install"
             /\ x = [Posted(Ended(c), "RES_DEPLOY_DONE") EXCEPT
                       !.installed = VersionOf[c.place[2]]]
      BY <1>6 DEF Succeeds
    <2>6. Ends
      BY <2>1, <2>2, <2>3, <2>4, <2>5
    <2> QED
      BY <2>6, HaltedSound
  <1>7. CASE x \in Fails(c)
    <2>1. c.work # "none" /\ \E y \in GivesUp(c) : x = Posted(y, "RES_ERROR")
      BY <1>7 DEF Fails
    <2>2. Ends
      BY <1>1, <1>3, <2>1, GivesUpEffect
    <2> QED
      BY <2>2, HaltedSound
  <1>8. CASE x \in Cancels(c)
    <2>1. c.work # "none" /\ \E y \in GivesUp(c) : x = Posted(y, "RES_CANCEL_DONE")
      BY <1>8 DEF Cancels
    <2>2. Ends
      BY <1>1, <1>3, <2>1, GivesUpEffect
    <2> QED
      BY <2>2, HaltedSound
  <1>9. CASE x \in Unheeded(c)
    <2> DEFINE n == VersionOf[c.place[2]]
               y == Ended(c)
    <2>1. /\ c.work = "install" /\ c.state \notin {"WR_DEPLOY", "WR_CANCEL"}
          /\ x = y \/ x = [y EXCEPT !.installed = n]
      BY <1>9 DEF Unheeded
    <2>2. Halted(c, y) /\ n \in Nat
      BY <1>1, <1>3, <2>1, HaltedEnded
    <2> HIDE DEF n, y
    <2>3. Halted(c, [y EXCEPT !.installed = n])
      BY <2>2, HaltedExcept
    <2>4. Halted(c, x)
      BY <2>1, <2>2, <2>3
    <2> QED
      BY <2>1, <2>4, HaltedSound
  <1> QED
    BY <1>6, <1>7, <1>8, <1>9 DEF WorkEnds

\* stopThread() leaves no worker.
LEMMA StopThreadEffect ==
  ASSUME NEW c, Sound(c), NEW x \in StopThread(c)
  PROVE  Sound(x) /\ x.work = "none" /\ x.state = c.state /\ x.package = c.package
  <1>1. CASE c.work = "none"
    BY <1>1 DEF StopThread
  <1>2. CASE c.work # "none" /\ x \in WorkEnds(c)
    BY <1>2, WorkEndsEffect DEF Halted
  <1>3. CASE c.work # "none" /\ x \in GivesUp(c)
    <2>1. c \in Client /\ c.place \in Place
      BY <1>3 DEF Sound, Client
    <2>2. Halted(c, x)
      BY <1>3, <2>1, GivesUpEffect
    <2> QED
      BY <1>3, <2>2, HaltedSound DEF Halted
  <1> QED
    BY <1>1, <1>2, <1>3 DEF StopThread

\* What a change of hasCancelAction makes of a client: the worker may have quit.
LEMMA CancelActionEffect ==
  ASSUME NEW c, Sound(c), NEW on \in BOOLEAN, NEW x \in CancelAction(c, on)
  PROVE  /\ Sound(x) /\ x.state = c.state /\ x.last = c.last /\ x.package = c.package
         /\ x.queue = c.queue
         /\ x.quit \/ (x.work = c.work /\ x.quit = c.quit)
         /\ x.work \in {c.work, "none"}
  <1> DEFINE changed == [c EXCEPT !.hasCancelAction = on]
  <1>1. /\ changed \in Client /\ changed.state = c.state /\ changed.last = c.last
        /\ changed.package = c.package /\ changed.queue = c.queue
        /\ changed.work = c.work /\ changed.place = c.place /\ changed.quit = c.quit
    BY DEF Sound, Client
  <1>2. CASE x = changed
    BY <1>1, <1>2 DEF Sound, Pending
  <1>3. CASE \E y \in GivesUp(changed) : x = [y EXCEPT !.quit = TRUE]
    <2>1. changed.work # "none" => changed.place \in Place
      BY <1>1 DEF Sound, Client
    <2> HIDE DEF changed
    <2>2. PICK y \in GivesUp(changed) : x = [y EXCEPT !.quit = TRUE]
      BY <1>3
    <2>3. Halted(changed, y) /\ y.last = changed.last /\ y.queue = changed.queue
      BY <1>1, <2>1, GivesUpEffect
    <2>4. /\ y \in Client
          /\ y.work = "none" /\ y.place = <<>>
          /\ y.state = c.state /\ y.last = c.last
          /\ y.package = c.package /\ y.queue = c.queue
      BY <1>1, <2>3 DEF Halted
    <2>5. /\ x \in Client /\ x.quit = TRUE
          /\ x.work = "none" /\ x.place = <<>>
          /\ x.state = c.state /\ x.last = c.last
          /\ x.package = c.package /\ x.queue = c.queue
      BY <2>2, <2>4 DEF Client
    <2> QED
      BY <2>5 DEF Sound, Pending
  <1> QED
    BY <1>2, <1>3 DEF CancelAction
-----------------------------------------------------------------------------
(* How a handler begins, and how it ends. *)

LEMMA MovedSound ==
  ASSUME NEW c, Sound(c), NEW s \in ClientState \ {"WR_OFFLINE", "WR_UNKNOWN"}
  PROVE  Sound(Moved(c, s))
  <1>1. /\ Moved(c, s) \in Client /\ Moved(c, s).state = s
        /\ Moved(c, s).work = c.work /\ Moved(c, s).place = c.place
        /\ Moved(c, s).package = c.package /\ Moved(c, s).queue = c.queue
    BY MovedEffect DEF Sound
  <1> QED
    BY <1>1 DEF Sound, Pending

\* A handler that makes a good client d, and sends the domain message or not.
LEMMA SendGood ==
  ASSUME IInv, NEW d \in Domain, NEW c, Good(d, c), NEW answer, SendAnswer(d, c, answer)
  PROVE  IInv'
  <1> DEFINE sent == [c EXCEPT !.needDiscovery = FALSE]
             lost == [c EXCEPT !.needDiscovery = TRUE, !.messageId = 0,
                               !.serverState = IF d \in Watcher THEN "MR_OFFLINE" ELSE @]
  <1>1. Good(d, sent)
    BY DEF Good, Sound, Going, Fits, Underway, Pending, Client
  <1>2. Good(d, lost)
    <2> DEFINE shown == IF d \in Watcher THEN "MR_OFFLINE" ELSE c.serverState
    <2>1. shown \in ServerState /\ 0 \in 0 .. MaxNumber
      BY ClientAssumption DEF Good, Sound, Client, ServerState
    <2>2. lost = [c EXCEPT !.needDiscovery = TRUE, !.messageId = 0, !.serverState = shown]
      OBVIOUS
    <2> HIDE DEF shown
    <2> QED
      BY <2>1, <2>2 DEF Good, Sound, Going, Fits, Underway, Pending, Client
  <1>3. client' = [client EXCEPT ![d] = sent] \/ client' = [client EXCEPT ![d] = lost]
    BY DEF SendAnswer
  <1> HIDE DEF sent, lost
  <1> QED
    BY <1>1, <1>2, <1>3 DEF IInv, Good, Sound

LEMMA QuietGood ==
  ASSUME IInv, NEW d \in Domain, NEW c, Good(d, c), Quiet(d, c)
  PROVE  IInv'
  BY DEF IInv, Quiet, Good, Sound

\* The first event of a good client is taken.
LEMMA RestEffect ==
  ASSUME NEW d \in Domain, Good(d, client[d]), client[d].queue # <<>>
  PROVE  /\ Sound(Rest(d)) /\ Fits(Rest(d))
         /\ Rest(d).state = client[d].state /\ Rest(d).work = client[d].work
         /\ Rest(d).package = client[d].package
         /\ Head(client[d].queue) \in ClientEvent
         /\ Head(client[d].queue).event \notin Results => Good(d, Rest(d))
         /\ Head(client[d].queue).event \in Results => client[d].package # NoId
  <1> DEFINE c == client[d]
             x == Rest(d)
  <1>1. Sound(c) /\ c \in Client /\ c.queue # <<>> /\ Going(d, c) /\ Fits(c)
    BY DEF Good, Sound
  <1>2. x = [c EXCEPT !.queue = Tail(c.queue)] /\ Tail(c.queue) \in Seq(ClientEvent)
    BY <1>1, HeadTailProperties DEF Rest, Client
  <1> HIDE DEF c, x
  <1>3. /\ x \in Client /\ x.queue = Tail(c.queue)
        /\ x.state = c.state /\ x.work = c.work /\ x.place = c.place
        /\ x.package = c.package /\ x.quit = c.quit
    BY <1>1, <1>2 DEF Client
  <1>4. /\ Pending(x, Results) => Pending(c, Results)
        /\ Head(c.queue).event \notin Results => (Pending(c, Results) => Pending(x, Results))
        /\ Head(c.queue).event \in Results => Pending(c, Results)
        /\ Head(c.queue) \in ClientEvent
    BY <1>1, <1>3, PendingTail
  <1>5. Sound(x) /\ Fits(x)
    BY <1>1, <1>3, <1>4 DEF Sound, Fits
  <1>6. Head(c.queue).event \notin Results => Good(d, x)
    BY <1>1, <1>3, <1>4, <1>5 DEF Good, Going, Underway
  <1>7. Head(c.queue).event \in Results => c.package # NoId
    BY <1>1, <1>4 DEF Sound
  <1> QED
    BY <1>3, <1>4, <1>5, <1>6, <1>7 DEF c, x

\* A control message is taken.
LEMMA ControlledGood ==
  ASSUME NEW d \in Domain, Good(d, client[d]), NEW control, IsControl(d, control)
  PROVE  Good(d, Controlled(d)) /\ Controlled(d).state = client[d].state
  <1> DEFINE x == Rest(d)
             m == Head(client[d].queue).message
             package == IF d \in m.domains THEN m.id ELSE x.package
  <1>1. Head(client[d].queue).event = "REQ_CONTROL" /\ client[d].queue # <<>>
    BY DEF IsControl, FirstIs
  <1>2. Good(d, x) /\ x.state = client[d].state /\ Head(client[d].queue) \in ClientEvent
    BY <1>1, RestEffect DEF Results
  <1>3. m \in ControlMessage
    BY <1>1, <1>2 DEF ClientEvent
  <1>4. Controlled(d) = [x EXCEPT !.id = m.id, !.package = package]
    BY DEF Controlled
  <1>5. m.id \in Id \cup {NoId} /\ package \in Id \cup {NoId} /\ (package = NoId => x.package = NoId)
    BY <1>2, <1>3 DEF ControlMessage, Good, Sound, Client
  <1> HIDE DEF x, m, package
  <1> DEFINE y == Controlled(d)
  <1>6. /\ y \in Client /\ y.state = x.state /\ y.work = x.work /\ y.place = x.place
        /\ y.queue = x.queue /\ y.quit = x.quit /\ (y.package = NoId => x.package = NoId)
    BY <1>2, <1>4, <1>5 DEF Good, Sound, Client
  <1> HIDE DEF y
  <1>7. Good(d, y) /\ y.state = x.state
    BY <1>2, <1>6 DEF Good, Sound, Going, Fits, Underway, Pending
  <1> QED
    BY <1>2, <1>7 DEF y

\* A change of hasCancelAction leaves the client good.
LEMMA CancelActionGood ==
  ASSUME NEW d, NEW c, Good(d, c), NEW on \in BOOLEAN, NEW x \in CancelAction(c, on)
  PROVE  Good(d, x) /\ x.state = c.state /\ x.last = c.last /\ x.package = c.package
  BY CancelActionEffect DEF Good, Going, Fits, Underway, Pending

\* The error code is cleared.
LEMMA ErrorGood ==
  ASSUME NEW c, Sound(c), NEW error \in BOOLEAN
  PROVE  LET x == [c EXCEPT !.error = error]
         IN /\ Sound(x) /\ x.state = c.state /\ x.work = c.work /\ x.package = c.package
            /\ x.queue = c.queue /\ x.quit = c.quit /\ x.last = c.last
            /\ \A d : Good(d, c) => Good(d, x)
  BY DEF Good, Sound, Going, Fits, Underway, Pending, Client

\* The worker starts on a phase of its own.
LEMMA StartedGood ==
  ASSUME NEW d, NEW c, Sound(c), c.package # NoId, NEW work \in Work \ {"none"},
         c.state \in {"WR_DOWNLOAD", "WR_VERIFY", "WR_PATCH"} => work \notin {"deploy", "install"}
  PROVE  Good(d, Started(c, work))
  BY StartedEffect DEF Good, Sound, Going, Fits, Underway
-----------------------------------------------------------------------------
(* Every handler. *)

\* A client that is in no phase, or posts a result, is good.
LEMMA CalmGood ==
  ASSUME NEW d, NEW c, Sound(c), c.state \notin Phases
  PROVE  Good(d, c)
  BY DEF Good, Going, Fits, Phases

LEMMA PostedGood ==
  ASSUME NEW d, NEW c, Sound(c), c.package # NoId, Fits(c), NEW e \in Results
  PROVE  Good(d, Posted(c, e))
  BY PostedEffect DEF Good, Sound, Going, Fits, Underway

LEMMA CtlResetStep ==
  ASSUME IInv, NEW d \in Domain, CtlReset(d)
  PROVE  IInv'
  <1>1. Good(d, client[d]) /\ IsControl(d, "CTL_RESET")
    BY DEF IInv, CtlReset
  <1>2. PICK c \in CancelAction(Controlled(d), FALSE) :
          SendDomainMessage(d, Moved([c EXCEPT !.error = FALSE],
                                     IF c.state = "WR_OFFLINE" THEN "WR_IDLE" ELSE c.state))
    BY DEF CtlReset
  <1>3. Good(d, c)
    BY <1>1, ControlledGood, CancelActionGood
  <1>4. c.state # "WR_OFFLINE"
    BY <1>3 DEF Good, Sound
  <1> DEFINE x == [c EXCEPT !.error = FALSE]
  <1>5. Good(d, x) /\ x.state = c.state
    BY <1>3, ErrorGood DEF Good
  <1>6. SendAnswer(d, Moved(x, x.state), "ANS_UNKNOWN")
    BY <1>2, <1>4, <1>5 DEF SendDomainMessage
  <1> HIDE DEF x
  <1>7. Moved(x, x.state) = x
    BY DEF Moved
  <1> QED
    BY <1>5, <1>6, <1>7, SendGood

LEMMA CtlDownloadStep ==
  ASSUME IInv, NEW d \in Domain, CtlDownload(d)
  PROVE  IInv'
  <1>1. Good(d, client[d]) /\ IsControl(d, "CTL_DOWNLOAD")
    BY DEF IInv, CtlDownload
  <1>2. PICK c \in CancelAction(Controlled(d), FALSE) :
          IF c.package = NoId \/ c.state \in {"WR_DOWNLOAD", "WR_ERROR"}
          THEN SendDomainMessage(d, c)
          ELSE \E s \in StopThread(Moved([c EXCEPT !.error = FALSE], "WR_DOWNLOAD")) :
                 SendDomainMessage(d, Started(s, "download"))
    BY DEF CtlDownload
  <1>3. Good(d, c)
    BY <1>1, ControlledGood, CancelActionGood
  <1>4. CASE c.package = NoId \/ c.state \in {"WR_DOWNLOAD", "WR_ERROR"}
    BY <1>2, <1>3, <1>4, SendGood DEF SendDomainMessage
  <1>5. CASE ~(c.package = NoId \/ c.state \in {"WR_DOWNLOAD", "WR_ERROR"})
    <2> DEFINE x == [c EXCEPT !.error = FALSE]
    <2>1. PICK s \in StopThread(Moved(x, "WR_DOWNLOAD")) :
            SendAnswer(d, Started(s, "download"), "ANS_UNKNOWN")
      BY <1>2, <1>5 DEF SendDomainMessage
    <2>2. Sound(x) /\ x.package # NoId
      BY <1>3, <1>5, ErrorGood DEF Good
    <2> HIDE DEF x
    <2>3. Sound(Moved(x, "WR_DOWNLOAD")) /\ Moved(x, "WR_DOWNLOAD").package # NoId
      BY <2>2, MovedSound, MovedEffect DEF Sound, ClientState
    <2>4. Sound(s) /\ s.package # NoId
      BY <2>3, StopThreadEffect
    <2>5. Good(d, Started(s, "download"))
      BY <2>4, StartedGood DEF Work
    <2> QED
      BY <2>1, <2>5, SendGood
  <1> QED
    BY <1>4, <1>5

LEMMA CtlDeployStep ==
  ASSUME IInv, NEW d \in Domain, CtlDeploy(d)
  PROVE  IInv'
  <1>1. Good(d, client[d]) /\ IsControl(d, "CTL_DEPLOY")
    BY DEF IInv, CtlDeploy
  <1> DEFINE waiting(c) == IF c.state = "WR_IDLE" THEN Moved(c, "WR_WAIT") ELSE c
             stopped(c) == StopThread(Moved([waiting(c) EXCEPT !.error = FALSE], "WR_DEPLOY"))
  <1>2. PICK c \in CancelAction(Controlled(d), FALSE) :
          \/ SendDomainMessage(d, c)
          \/ c.package # NoId /\ SendDomainMessage(d, waiting(c))
          \/ c.package # NoId /\ \E s \in stopped(c) : SendDomainMessage(d, Deployed(s))
    BY DEF CtlDeploy, DeployIgnored
  <1>3. Good(d, c) /\ Sound(c)
    BY <1>1, ControlledGood, CancelActionGood DEF Good
  <1> DEFINE w == waiting(c)
  <1>4. Good(d, w) /\ Sound(w) /\ w.package = c.package
    <2>1. CASE c.state = "WR_IDLE"
      <3>1. Sound(Moved(c, "WR_WAIT")) /\ Moved(c, "WR_WAIT").package = c.package
            /\ Moved(c, "WR_WAIT").state = "WR_WAIT"
        BY <1>3, MovedSound, MovedEffect DEF Sound, ClientState
      <3> QED
        BY <2>1, <3>1, CalmGood DEF Phases
    <2>2. CASE c.state # "WR_IDLE"
      BY <1>3, <2>2
    <2> QED
      BY <2>1, <2>2
  <1> HIDE DEF w
  <1>5. CASE SendDomainMessage(d, c)
    BY <1>3, <1>5, SendGood DEF SendDomainMessage
  <1>6. CASE SendDomainMessage(d, w)
    BY <1>4, <1>6, SendGood DEF SendDomainMessage
  <1>7. ASSUME c.package # NoId,
               NEW s \in StopThread(Moved([w EXCEPT !.error = FALSE], "WR_DEPLOY")),
               SendDomainMessage(d, Deployed(s))
        PROVE  IInv'
    <2> DEFINE x == [w EXCEPT !.error = FALSE]
               y == Moved(x, "WR_DEPLOY")
    <2>1. Sound(x) /\ x.package # NoId
      BY <1>4, <1>7, ErrorGood
    <2> HIDE DEF x
    <2>2. Sound(y) /\ y.package # NoId /\ y.state = "WR_DEPLOY"
      BY <2>1, MovedSound, MovedEffect DEF Sound, ClientState
    <2>3. s \in StopThread(y)
      BY <1>7 DEF x
    <2> HIDE DEF y
    <2>4. Sound(s) /\ s.package # NoId /\ s.state = "WR_DEPLOY"
      BY <2>2, <2>3, StopThreadEffect
    <2>5. Good(d, Started(s, "deploy"))
      BY <2>4, StartedGood DEF Work
    <2>6. Good(d, Posted(s, "RES_DEPLOY_DONE")) /\ Good(d, Posted(s, "RES_ERROR"))
      BY <2>4, PostedGood DEF Fits, Results
    <2>7. Deployed(s) \in {Posted(s, "RES_DEPLOY_DONE"), Started(s, "deploy"), Posted(s, "RES_ERROR")}
      BY DEF Deployed
    <2>8. Good(d, Deployed(s))
      BY <2>5, <2>6, <2>7
    <2> QED
      BY <1>7, <2>8, SendGood DEF SendDomainMessage
  <1>8. \/ SendDomainMessage(d, c)
        \/ SendDomainMessage(d, w)
        \/ /\ c.package # NoId
           /\ \E s \in StopThread(Moved([w EXCEPT !.error = FALSE], "WR_DEPLOY")) :
                SendDomainMessage(d, Deployed(s))
    BY <1>2 DEF w
  <1> QED
    BY <1>5, <1>6, <1>7, <1>8

\* What is interrupted is answered, or the worker goes on and will answer.
LEMMA CtlCancelStep ==
  ASSUME IInv, NEW d \in Domain, CtlCancel(d)
  PROVE  IInv'
  <1>1. Good(d, client[d]) /\ IsControl(d, "CTL_CANCEL")
    BY DEF IInv, CtlCancel
  <1>2. PICK c \in CancelAction(Controlled(d), TRUE) :
          IF c.package = NoId \/ c.state \in {"WR_CANCEL", "WR_ERROR"}
          THEN SendDomainMessage(d, c)
          ELSE SendDomainMessage(d, CancelAnswered(d, Moved([c EXCEPT !.error = FALSE],
                                                            "WR_CANCEL")))
    BY DEF CtlCancel
  <1>3. Good(d, c)
    BY <1>1, ControlledGood, CancelActionGood
  <1>4. CASE c.package = NoId \/ c.state \in {"WR_CANCEL", "WR_ERROR"}
    BY <1>2, <1>3, <1>4, SendGood DEF SendDomainMessage
  <1>5. CASE ~(c.package = NoId \/ c.state \in {"WR_CANCEL", "WR_ERROR"})
    <2> DEFINE x == [c EXCEPT !.error = FALSE]
               y == Moved(x, "WR_CANCEL")
               z == CancelAnswered(d, y)
    <2>1. SendAnswer(d, z, "ANS_UNKNOWN")
      BY <1>2, <1>5 DEF SendDomainMessage
    <2>2. Sound(x) /\ x.package # NoId /\ Good(d, x) /\ x.state = c.state
      BY <1>3, <1>5, ErrorGood DEF Good
    <2> HIDE DEF x
    <2>3. /\ Sound(y) /\ y.package # NoId /\ y.state = "WR_CANCEL" /\ Fits(y)
          /\ y.last = x.state /\ y.work = x.work /\ y.quit = x.quit /\ y.queue = x.queue
      <3>1. x \in Client /\ x.state # "WR_CANCEL"
        BY <1>5, <2>2 DEF Sound
      <3>2. "WR_CANCEL" \in ClientState \ {"WR_OFFLINE", "WR_UNKNOWN"} /\ "WR_CANCEL" # "WR_IDLE"
        BY DEF ClientState
      <3>3. Sound(y)
        BY <2>2, <3>2, MovedSound
      <3>4. /\ y.package = x.package /\ y.state = "WR_CANCEL"
            /\ y.last = x.state /\ y.work = x.work /\ y.quit = x.quit /\ y.queue = x.queue
        BY <3>1, <3>2, MovedEffect
      <3> HIDE DEF y
      <3> QED
        BY <2>2, <3>3, <3>4 DEF Fits
    <2>4. x.state \in {"WR_IDLE", "WR_DOWNLOAD", "WR_VERIFY", "WR_PATCH", "WR_WAIT", "WR_DEPLOY"}
      BY <1>5, <2>2 DEF Sound, Client, ClientState
    <2> HIDE DEF y
    <2>5. CASE z = y
      <3>1. y.last # "WR_IDLE" /\ (y.last = "WR_WAIT" => d \notin CancelEnable)
        <4>1. SUFFICES ASSUME y.last = "WR_IDLE" \/ (y.last = "WR_WAIT" /\ d \in CancelEnable)
                       PROVE  z # y
          BY <2>5
        <4>2. z = Posted(y, "RES_ERROR") \/ z = Posted(y, "RES_CANCEL_DONE")
          BY <4>1 DEF CancelAnswered
        <4>3. Posted(y, "RES_ERROR").queue # y.queue /\ Posted(y, "RES_CANCEL_DONE").queue # y.queue
          <5>1. y.queue \in Seq(ClientEvent) /\ y \in Client
            BY <2>3 DEF Sound, Client
          <5>2. ASSUME NEW e \in Results PROVE Posted(y, e).queue # y.queue
            <6>1. [event |-> e] \in ClientEvent
              BY <5>2 DEF ClientEvent, Results
            <6>2. Posted(y, e).queue = Append(y.queue, [event |-> e])
              BY <5>1 DEF Posted, Client
            <6>3. Len(Append(y.queue, [event |-> e])) = Len(y.queue) + 1 /\ Len(y.queue) \in Nat
              BY <5>1, <6>1, AppendProperties, LenProperties
            <6> QED
              BY <6>2, <6>3
          <5> QED
            BY <5>2 DEF Results
        <4> QED
          BY <4>2, <4>3
      <3>2. Going(d, y)
        BY <2>2, <2>3, <2>4, <3>1 DEF Good, Going, Underway, Pending, Phases
      <3> QED
        BY <2>1, <2>3, <2>5, <3>2, SendGood DEF Good
    <2>6. CASE z \in {Posted(y, "RES_ERROR"), Posted(y, "RES_CANCEL_DONE")}
      <3>1. Good(d, Posted(y, "RES_ERROR")) /\ Good(d, Posted(y, "RES_CANCEL_DONE"))
        BY <2>3, PostedGood DEF Results
      <3> QED
        BY <2>1, <2>6, <3>1, SendGood
    <2>7. z = y \/ z \in {Posted(y, "RES_ERROR"), Posted(y, "RES_CANCEL_DONE")}
      BY DEF CancelAnswered
    <2> QED
      BY <2>5, <2>6, <2>7
  <1> QED
    BY <1>4, <1>5
LEMMA CtlClearStep ==
  ASSUME IInv, NEW d \in Domain, CtlClear(d)
  PROVE  IInv'
  <1>1. Good(d, client[d]) /\ IsControl(d, "CTL_CLEAR")
    BY DEF IInv, CtlClear
  <1>2. PICK c \in CancelAction(Controlled(d), FALSE) :
          \E s \in StopThread(c) : SendDomainMessage(d, Moved(s, "WR_IDLE"))
    BY DEF CtlClear
  <1>3. Good(d, c) /\ Sound(c)
    BY <1>1, ControlledGood, CancelActionGood DEF Good
  <1>4. PICK s \in StopThread(c) : SendAnswer(d, Moved(s, "WR_IDLE"), "ANS_UNKNOWN")
    BY <1>2 DEF SendDomainMessage
  <1>5. Sound(s) /\ s \in Client
    BY <1>3, StopThreadEffect DEF Sound
  <1>6. Sound(Moved(s, "WR_IDLE")) /\ Moved(s, "WR_IDLE").state = "WR_IDLE"
    BY <1>5, MovedSound, MovedEffect DEF ClientState
  <1> QED
    BY <1>4, <1>6, CalmGood, SendGood DEF Phases

LEMMA ReqDetailStep ==
  ASSUME IInv, NEW d \in Domain, ReqDetail(d)
  PROVE  IInv'
  <1> DEFINE e == Head(client[d].queue)
             c == Rest(d)
  <1>1. /\ Good(d, client[d]) /\ client[d].queue # <<>> /\ e.event = "REQ_DETAIL"
        /\ Quiet(d, [c EXCEPT !.serverState = e.shown])
    BY DEF IInv, ReqDetail, FirstIs
  <1>2. Good(d, c) /\ e \in ClientEvent
    BY <1>1, RestEffect DEF Results
  <1>3. e.shown \in ServerState
    BY <1>1, <1>2 DEF ClientEvent
  <1> HIDE DEF c, e
  <1>4. Good(d, [c EXCEPT !.serverState = e.shown])
    BY <1>2, <1>3 DEF Good, Sound, Going, Fits, Underway, Pending, Client
  <1> QED
    BY <1>1, <1>4, QuietGood

LEMMA ResErrorStep ==
  ASSUME IInv, NEW d \in Domain, ResError(d)
  PROVE  IInv'
  <1>1. Good(d, client[d]) /\ client[d].queue # <<>>
    BY DEF IInv, ResError, FirstIs
  <1>2. Sound(Rest(d)) /\ Rest(d) \in Client
    BY <1>1, RestEffect DEF Sound
  <1> DEFINE c == Moved(Rest(d), "WR_ERROR")
  <1>3. PICK error \in BOOLEAN : SendAnswer(d, [c EXCEPT !.error = error], "ANS_UNKNOWN")
    BY DEF ResError, SendDomainMessage
  <1>4. Sound(c) /\ c.state = "WR_ERROR"
    BY <1>2, MovedSound, MovedEffect DEF ClientState
  <1> HIDE DEF c
  <1>5. Good(d, [c EXCEPT !.error = error])
    BY <1>4, ErrorGood, CalmGood DEF Phases
  <1> QED
    BY <1>3, <1>5, SendGood

LEMMA ResDownloadStep ==
  ASSUME IInv, NEW d \in Domain, ResDownload(d)
  PROVE  IInv'
  <1>1. /\ Good(d, client[d]) /\ client[d].queue # <<>>
        /\ Head(client[d].queue).event \in Results
    BY DEF IInv, ResDownload, FirstIs, Results
  <1> DEFINE c == Moved(Rest(d), "WR_VERIFY")
  <1>2. PICK s \in StopThread(c) : SendAnswer(d, Started(s, "verify"), "ANS_UNKNOWN")
    BY DEF ResDownload, SendDomainMessage
  <1>3. Sound(Rest(d)) /\ Rest(d) \in Client /\ Rest(d).package # NoId
    BY <1>1, RestEffect DEF Sound
  <1>4. Sound(c) /\ c.package # NoId
    BY <1>3, MovedSound, MovedEffect DEF ClientState
  <1> HIDE DEF c
  <1>5. Sound(s) /\ s.package # NoId
    BY <1>4, StopThreadEffect
  <1>6. Good(d, Started(s, "verify"))
    BY <1>5, StartedGood DEF Work
  <1> QED
    BY <1>2, <1>6, SendGood

LEMMA ResVerifyStep ==
  ASSUME IInv, NEW d \in Domain, ResVerify(d)
  PROVE  IInv'
  <1>1. /\ Good(d, client[d]) /\ client[d].queue # <<>>
        /\ Head(client[d].queue).event \in Results
    BY DEF IInv, ResVerify, FirstIs, Results
  <1> DEFINE c == Rest(d)
             w == [c EXCEPT !.patchNewFiles = FALSE]
  <1>2. \/ SendAnswer(d, Moved(w, "WR_WAIT"), "ANS_UNKNOWN")
        \/ \E s \in StopThread(Moved(c, "WR_PATCH")) : SendAnswer(d, Started(s, "patch"), "ANS_UNKNOWN")
    BY DEF ResVerify, SendDomainMessage
  <1>3. Sound(c) /\ c \in Client /\ c.package # NoId
    BY <1>1, RestEffect DEF Sound
  <1> HIDE DEF c
  <1>4. CASE SendAnswer(d, Moved(w, "WR_WAIT"), "ANS_UNKNOWN")
    <2>1. Sound(w) /\ w \in Client
      BY <1>3 DEF Sound, Pending, Client
    <2> HIDE DEF w
    <2>2. Sound(Moved(w, "WR_WAIT")) /\ Moved(w, "WR_WAIT").state = "WR_WAIT"
      BY <2>1, MovedSound, MovedEffect DEF ClientState
    <2> QED
      BY <1>4, <2>2, CalmGood, SendGood DEF Phases
  <1>5. ASSUME NEW s \in StopThread(Moved(c, "WR_PATCH")),
               SendAnswer(d, Started(s, "patch"), "ANS_UNKNOWN")
        PROVE  IInv'
    <2>1. Sound(Moved(c, "WR_PATCH")) /\ Moved(c, "WR_PATCH").package # NoId
      BY <1>3, MovedSound, MovedEffect DEF ClientState
    <2>2. Sound(s) /\ s.package # NoId
      BY <2>1, StopThreadEffect
    <2>3. Good(d, Started(s, "patch"))
      BY <2>2, StartedGood DEF Work
    <2> QED
      BY <1>5, <2>3, SendGood
  <1> QED
    BY <1>2, <1>4, <1>5

LEMMA ResAnswerStep ==
  ASSUME IInv, NEW d \in Domain, ResAnswer(d)
  PROVE  IInv'
  <1>1. /\ Good(d, client[d]) /\ client[d].queue # <<>>
        /\ Head(client[d].queue).event \notin Results
        /\ SendAnswer(d, Rest(d), Head(client[d].queue).answer)
    BY DEF IInv, ResAnswer, FirstIs, Results
  <1> QED
    BY <1>1, RestEffect, SendGood

LEMMA ResDeployDoneStep ==
  ASSUME IInv, NEW d \in Domain, ResDeployDone(d)
  PROVE  IInv'
  <1>1. /\ Good(d, client[d]) /\ client[d].queue # <<>>
        /\ Head(client[d].queue).event \in Results
    BY DEF IInv, ResDeployDone, FirstIs, Results
  <1> DEFINE c == Moved(Rest(d), "WR_IDLE")
             n == VersionOf[client[d].package]
  <1>2. SendAnswer(d, [c EXCEPT !.version = n], "ANS_UNKNOWN")
    BY DEF ResDeployDone, SendDomainMessage
  <1>3. Sound(Rest(d)) /\ Rest(d) \in Client /\ client[d].package # NoId /\ client[d] \in Client
    BY <1>1, RestEffect DEF Good, Sound
  <1>4. n \in Nat
    BY <1>3, ClientAssumption DEF Client
  <1>5. Sound(c) /\ c.state = "WR_IDLE"
    BY <1>3, MovedSound, MovedEffect DEF ClientState
  <1> HIDE DEF c, n
  <1>6. Sound([c EXCEPT !.version = n]) /\ [c EXCEPT !.version = n].state = "WR_IDLE"
    BY <1>4, <1>5 DEF Sound, Pending, Client
  <1> QED
    BY <1>2, <1>6, CalmGood, SendGood DEF Phases

LEMMA ResCancelDoneStep ==
  ASSUME IInv, NEW d \in Domain, ResCancelDone(d)
  PROVE  IInv'
  <1>1. Good(d, client[d]) /\ client[d].queue # <<>>
    BY DEF IInv, ResCancelDone, FirstIs
  <1>2. SendAnswer(d, Moved(Rest(d), "WR_IDLE"), "ANS_UNKNOWN")
    BY DEF ResCancelDone, SendDomainMessage
  <1>3. Sound(Rest(d)) /\ Rest(d) \in Client
    BY <1>1, RestEffect DEF Sound
  <1>4. Sound(Moved(Rest(d), "WR_IDLE")) /\ Moved(Rest(d), "WR_IDLE").state = "WR_IDLE"
    BY <1>3, MovedSound, MovedEffect DEF ClientState
  <1> QED
    BY <1>2, <1>4, CalmGood, SendGood DEF Phases

-----------------------------------------------------------------------------
(* What happens beside the queue. *)

\* A worker that ends posts its result, or was ending a phase that is over.
LEMMA WorkerStepStep ==
  ASSUME IInv, NEW d \in Domain, WorkerStep(d)
  PROVE  IInv'
  <1> DEFINE c == client[d]
  <1>1. PICK x \in WorkEnds(c) \cup Installs(c) : Quiet(d, x)
    BY DEF WorkerStep
  <1>2. Good(d, c) /\ Sound(c)
    BY DEF IInv, Good
  <1> HIDE DEF c
  <1>3. CASE x \in WorkEnds(c)
    <2>1. /\ c.work # "none" /\ Halted(c, x) /\ Sound(x)
          /\ Pending(x, Results) \/ (c.work = "install" /\ c.state \notin {"WR_DEPLOY", "WR_CANCEL"})
      BY <1>2, <1>3, WorkEndsEffect
    <2>2. x.state = c.state /\ x.work = "none"
      BY <2>1 DEF Halted
    <2>3. Pending(x, Results) \/ x.state \notin Phases
      BY <1>2, <2>1, <2>2 DEF Good, Fits, Phases
    <2> QED
      BY <1>1, <2>1, <2>2, <2>3, QuietGood DEF Good, Going, Fits, Underway
  <1>4. CASE x \in Installs(c)
    <2>1. c.work = "deploy" /\ x = [c EXCEPT !.work = "install"]
      BY <1>4 DEF Installs
    <2>2. Good(d, x)
      BY <1>2, <2>1 DEF Good, Sound, Going, Fits, Underway, Pending, Client, Work
    <2> QED
      BY <1>1, <2>2, QuietGood
  <1> QED
    BY <1>1, <1>3, <1>4

LEMMA HeartbeatStep ==
  ASSUME IInv, NEW d \in Domain, Heartbeat(d)
  PROVE  IInv'
  BY SendGood DEF IInv, Heartbeat, SendDomainMessage

\* An event that arrives is no result.
LEMMA ArrivalGood ==
  ASSUME NEW d, NEW c, Good(d, c), NEW e \in ClientEvent, e.event \notin Results,
         NEW number \in 0 .. MaxNumber
  PROVE  /\ Good(d, [c EXCEPT !.messageId = number, !.queue = Append(@, e)])
         /\ Good(d, [c EXCEPT !.queue = Append(@, e)])
  <1> DEFINE q == Append(c.queue, e)
             x == [c EXCEPT !.messageId = number, !.queue = q]
             y == [c EXCEPT !.queue = q]
  <1>1. c \in Client /\ q \in Seq(ClientEvent)
    BY AppendProperties DEF Good, Sound, Client
  <1>2. q = Append(c.queue, e)
    OBVIOUS
  <1> HIDE DEF q
  <1>3. /\ x \in Client /\ x.queue = q
        /\ x.state = c.state /\ x.work = c.work /\ x.place = c.place
        /\ x.package = c.package /\ x.quit = c.quit
    BY <1>1 DEF Client
  <1>4. /\ y \in Client /\ y.queue = q
        /\ y.state = c.state /\ y.work = c.work /\ y.place = c.place
        /\ y.package = c.package /\ y.quit = c.quit
    BY <1>1 DEF Client
  <1> HIDE DEF x, y
  <1>5. Pending(x, Results) <=> Pending(c, Results)
    BY <1>1, <1>2, <1>3, PendingAppend
  <1>6. Pending(y, Results) <=> Pending(c, Results)
    BY <1>1, <1>2, <1>4, PendingAppend
  <1>7. Good(d, x) /\ Good(d, y)
    BY <1>3, <1>4, <1>5, <1>6 DEF Good, Sound, Going, Fits, Underway
  <1> QED
    BY <1>7 DEF q, x, y

LEMMA ArrivalStep ==
  ASSUME IInv, NEW d \in Domain,
         \/ \E m \in Controls, number \in 0 .. MaxNumber : ProcessControlMessage(d, m, number)
         \/ \E shown \in Shown : ProcessDetailMessage(d, shown)
         \/ \E answer \in {"ANS_ACCEPT", "ANS_REFUSE"} : PostDetailAnswer(d, answer)
  PROVE  IInv'
  <1>1. Good(d, client[d]) /\ 0 \in 0 .. MaxNumber
    BY ClientAssumption DEF IInv
  <1>2. ASSUME NEW m \in Controls, NEW number \in 0 .. MaxNumber,
               ProcessControlMessage(d, m, number)
        PROVE  IInv'
    <2> DEFINE e == [event |-> "REQ_CONTROL", message |-> m]
    <2>1. e \in ClientEvent /\ e.event \notin Results /\ number \in 0 .. MaxNumber
      BY ControlsAssumption, ClientAssumption DEF ClientEvent, Results
    <2>2. Quiet(d, [client[d] EXCEPT !.messageId = number, !.queue = Append(@, e)])
      BY <1>2 DEF ProcessControlMessage
    <2> HIDE DEF e
    <2> QED
      BY <1>1, <2>1, <2>2, ArrivalGood, QuietGood
  <1>3. ASSUME NEW shown \in Shown, ProcessDetailMessage(d, shown)
        PROVE  IInv'
    <2> DEFINE e == [event |-> "REQ_DETAIL", shown |-> shown]
    <2>1. e \in ClientEvent /\ e.event \notin Results
      BY ClientAssumption DEF ClientEvent, Results
    <2>2. Quiet(d, [client[d] EXCEPT !.queue = Append(@, e)])
      BY <1>3 DEF ProcessDetailMessage
    <2> HIDE DEF e
    <2> QED
      BY <1>1, <2>1, <2>2, ArrivalGood, QuietGood
  <1>4. ASSUME NEW answer \in {"ANS_ACCEPT", "ANS_REFUSE"}, PostDetailAnswer(d, answer)
        PROVE  IInv'
    <2> DEFINE e == [event |-> "RES_ANSWER", answer |-> answer]
    <2>1. e \in ClientEvent /\ e.event \notin Results
      BY DEF ClientEvent, Results, Answer
    <2>2. Quiet(d, [client[d] EXCEPT !.queue = Append(@, e)])
      BY <1>4 DEF PostDetailAnswer
    <2> HIDE DEF e
    <2> QED
      BY <1>1, <2>1, <2>2, ArrivalGood, QuietGood
  <1> QED
    BY <1>2, <1>3, <1>4

\* A client starts, whatever it leaves on the disk.
LEMMA BootedGood ==
  ASSUME NEW d, NEW disk \in [Place -> Content], NEW installed \in Nat
  PROVE  Good(d, Booted(disk, installed))
  <1> DEFINE c == Booted(disk, installed)
  <1>1. <<>> \in Seq(ClientEvent) /\ 0 \in 0 .. MaxNumber
    BY ClientAssumption, EmptySeq
  <1>2. /\ "WR_IDLE" \in ClientState /\ "WR_OFFLINE" \in ClientState
        /\ "MR_OFFLINE" \in ServerState /\ "none" \in Work
    BY DEF ClientState, ServerState, Work
  <1>3. c \in Client
    BY <1>1, <1>2 DEF Booted, Client
  <1>4. c.state = "WR_IDLE" /\ c.work = "none" /\ c.place = <<>> /\ c.queue = <<>>
    BY DEF Booted
  <1> HIDE DEF c
  <1>5. ~Pending(c, Results)
    <2>1. DOMAIN c.queue = {}
      BY <1>4
    <2> QED
      BY <2>1 DEF Pending
  <1>6. Sound(c) /\ c.state \notin Phases
    BY <1>3, <1>4, <1>5 DEF Sound, Phases
  <1>7. Good(d, c)
    BY <1>6, CalmGood
  <1> QED
    BY <1>7 DEF c

LEMMA RestartStep ==
  ASSUME IInv, NEW d \in Domain, Restart(d)
  PROVE  IInv'
  <1> DEFINE c == client[d]
  <1>1. PICK x \in GivesUp(c),
             version \in {c.installed} \cup
                         IF c.work = "install" THEN {VersionOf[c.place[2]]} ELSE {} :
          Quiet(d, Booted(x.disk, version))
    BY DEF Restart
  <1>2. /\ c \in Client
        /\ c.work # "none" => c.place \in Place /\ VersionOf[c.place[2]] \in Nat
    BY ClientAssumption DEF IInv, Good, Sound, Client, Place
  <1> HIDE DEF c
  <1>3. x.disk \in [Place -> Content]
    BY <1>1, <1>2, GivesUpEffect DEF Halted, Client
  <1>4. version \in Nat
    BY <1>1, <1>2 DEF Client
  <1> QED
    BY <1>1, <1>3, <1>4, BootedGood, QuietGood

-----------------------------------------------------------------------------
(* The invariant, and what follows from it. *)

LEMMA InitIInv == Init => IInv
  <1>1. SUFFICES ASSUME Init PROVE IInv
    OBVIOUS
  <1> DEFINE disk == [p \in Place |-> "none"]
             c == Booted(disk, 0)
  <1>2. disk \in [Place -> Content] /\ 0 \in Nat
    BY DEF Content
  <1>3. client = [d \in Domain |-> c]
    BY <1>1 DEF Init
  <1> HIDE DEF disk
  <1>4. \A d \in Domain : Good(d, c)
    BY <1>2, BootedGood
  <1> HIDE DEF c
  <1> QED
    BY <1>3, <1>4 DEF IInv, Good, Sound

LEMMA StepIInv == IInv /\ [Next]_vars => IInv'
  <1>1. SUFFICES ASSUME IInv, [Next]_vars PROVE IInv'
    OBVIOUS
  <1>2. CASE UNCHANGED vars
    BY <1>1, <1>2 DEF IInv, vars
  <1>3. ASSUME NEW d \in Domain, Handle(d)
        PROVE  IInv'
    BY <1>1, <1>3, CtlResetStep, CtlDownloadStep, CtlDeployStep, CtlCancelStep, CtlClearStep,
       ReqDetailStep, ResErrorStep, ResDownloadStep, ResVerifyStep, ResAnswerStep,
       ResDeployDoneStep, ResCancelDoneStep DEF Handle
  <1>4. ASSUME NEW d \in Domain, WorkerStep(d) \/ Heartbeat(d) \/ Restart(d)
        PROVE  IInv'
    BY <1>1, <1>4, WorkerStepStep, HeartbeatStep, RestartStep
  <1>5. ASSUME NEW d \in Domain,
               \/ \E m \in Controls, number \in 0 .. MaxNumber : ProcessControlMessage(d, m, number)
               \/ \E shown \in Shown : ProcessDetailMessage(d, shown)
               \/ \E answer \in {"ANS_ACCEPT", "ANS_REFUSE"} : PostDetailAnswer(d, answer)
        PROVE  IInv'
    BY <1>1, <1>5, ArrivalStep
  <1> QED
    BY <1>1, <1>2, <1>3, <1>4, <1>5 DEF Next

\* The inductive invariant holds: every client is well formed, and its phase goes on.
THEOREM Invariance == Spec => []IInv
  <1> QED
    BY InitIInv, StepIInv, PTL DEF Spec

\* The clients have their types, and a worker that is there has a package to work on
\* (m_hpr and workThread).
THEOREM TypeCorrect == Spec => []TypeOK
  <1>1. IInv => TypeOK
    BY DEF IInv, Good, Sound, TypeOK
  <1> QED
    BY <1>1, Invariance, PTL

\* A phase that a client reports is going on, or its worker has quit in silence, or
\* it is a cancellation that the application does not allow (workThread, stopThread,
\* hasCancelAction): for any number of upgrades, clients and messages.
THEOREM PhasesUnderway == Spec => []PhaseUnderway
  <1>1. IInv => PhaseUnderway
    BY DEF IInv, Good, Going, Phases, PhaseUnderway
  <1> QED
    BY <1>1, Invariance, PTL
=============================================================================
