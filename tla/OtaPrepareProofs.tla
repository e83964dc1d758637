-------------------------- MODULE OtaPrepareProofs --------------------------
(***************************************************************************)
(* Proofs about OtaPrepare, for every set of files, patches and upgrades   *)
(* and any number of threads and messages.                                 *)
(*                                                                         *)
(* What a verification posts is decided when its jobs are joined, by what  *)
(* they left behind.  The invariant says what that means on the way: a     *)
(* file nobody waits for any more is intact; a status that has failed has  *)
(* a file to blame; and a job that is done without having compared its     *)
(* digest has seen a cancellation, which still stands or was taken back.   *)
(* That all jobs are done when shutdown() returns is what the pool under   *)
(* it is proved to keep, at the end: no wakeup is lost, every job is run   *)
(* once, and ThreadPool implements ForkJoin.                               *)
(***************************************************************************)
EXTENDS OtaPrepare, ThreadPool, TLAPS, SequenceTheorems

\* What is on the disk does not change under a worker that reads it.
Checked ==
  worker.on = "verify" =>
    /\ worker.verifyUrls \subseteq Files[worker.upgrade]
    /\ \A f \in Files[worker.upgrade] \ worker.verifyUrls : stored[f] = "intact" /\ f \in Summed

Blamed == worker.on \in {"verify", "patch"} /\ worker.failed => \E f \in Jobs(worker) : Cause(f)

Excused ==
  worker.on = "verify" /\ ~worker.failed =>
    \A f \in worker.verifyUrls :
      worker.job[f] = "done" => hasCancelAction \/ worker.resumed

Calling ==
  /\ worker.on # "verify" => worker.verifyUrls = {}
  /\ worker.entered \/ worker.joining => worker.on \in {"verify", "patch"}

\* A client without an upgrade has no worker, and waits for the result of none.
Owned ==
  upgrade = NoUpgrade =>
    worker.on = "none" /\ \A i \in DOMAIN queue : queue[i].event \notin Result

IInv == TypeOK /\ Checked /\ Blamed /\ Excused /\ Calling /\ Owned

-----------------------------------------------------------------------------
(* Queues and workers. *)

LEMMA QueueAppend ==
  ASSUME queue \in Seq(Event), NEW e \in Event
  PROVE  /\ Append(queue, e) \in Seq(Event)
         /\ Len(Append(queue, e)) = Len(queue) + 1 /\ Len(queue) \in Nat
         /\ Append(queue, e)[Len(Append(queue, e))] = e
         /\ \A i \in DOMAIN Append(queue, e) :
              Append(queue, e)[i] = e \/ \E k \in DOMAIN queue : Append(queue, e)[i] = queue[k]
  <1> DEFINE q == Append(queue, e)
  <1>1. /\ q \in Seq(Event) /\ Len(queue) \in Nat /\ Len(q) = Len(queue) + 1
        /\ DOMAIN queue = 1 .. Len(queue) /\ DOMAIN q = 1 .. Len(queue) + 1
        /\ \A i \in 1 .. Len(queue) : q[i] = queue[i]
        /\ q[Len(queue) + 1] = e
    BY AppendProperties, LenProperties
  <1> HIDE DEF q
  <1>2. \A i \in DOMAIN q : i \in 1 .. Len(queue) \/ i = Len(queue) + 1
    BY <1>1
  <1>3. \A i \in DOMAIN q : q[i] = e \/ \E k \in DOMAIN queue : q[i] = queue[k]
    BY <1>1, <1>2
  <1> QED
    BY <1>1, <1>3 DEF q

LEMMA QueueTail ==
  ASSUME queue \in Seq(Event), queue # <<>>
  PROVE  /\ Tail(queue) \in Seq(Event)
         /\ Head(queue) \in Event
         /\ \E k \in DOMAIN queue : Head(queue) = queue[k]
         /\ \A i \in DOMAIN Tail(queue) : \E k \in DOMAIN queue : Tail(queue)[i] = queue[k]
  <1> DEFINE q == Tail(queue)
  <1>1. /\ q \in Seq(Event) /\ Len(queue) \in Nat \ {0} /\ Len(q) = Len(queue) - 1
        /\ DOMAIN queue = 1 .. Len(queue) /\ DOMAIN q = 1 .. Len(queue) - 1
        /\ \A i \in 1 .. Len(queue) - 1 : q[i] = queue[i + 1]
        /\ Head(queue) = queue[1] /\ Head(queue) \in Event
    BY HeadTailProperties, LenProperties
  <1> HIDE DEF q
  <1>2. 1 \in DOMAIN queue /\ \A i \in DOMAIN q : i + 1 \in DOMAIN queue /\ q[i] = queue[i + 1]
    BY <1>1
  <1> QED
    BY <1>1, <1>2 DEF q

\* The tail with an event appended.
LEMMA QueueTurn ==
  ASSUME queue \in Seq(Event), queue # <<>>, NEW e \in Event
  PROVE  Append(Tail(queue), e) \in Seq(Event)
  BY HeadTailProperties, AppendProperties

LEMMA NoWorkerFacts ==
  /\ NoWorker \in Worker
  /\ NoWorker.on = "none" /\ NoWorker.upgrade = NoUpgrade
  /\ ~NoWorker.entered /\ ~NoWorker.joining
  /\ NoWorker.verifyUrls = {} /\ ~NoWorker.failed
  BY DEF NoWorker, Worker

LEMMA StartedFacts ==
  ASSUME NEW on \in {"download", "verify", "patch"}, NEW u \in Upgrade
  PROVE  LET w == Started(on, u)
         IN /\ w \in Worker /\ w.on = on /\ w.upgrade = u
            /\ ~w.entered /\ ~w.joining /\ ~w.failed
            /\ on = "verify" => w.verifyUrls = Files[u]
            /\ on # "verify" => w.verifyUrls = {}
            /\ \A f \in File : w.job[f] = "queued"
  <1> DEFINE urls == IF on = "verify" THEN Files[u] ELSE {}
             job == [f \in File |-> "queued"]
  <1>1. urls \in SUBSET File
    BY PrepareAssumption
  <1>2. /\ job \in [File -> {"queued", "reading", "applied", "pushing", "done"}]
        /\ \A f \in File : job[f] = "queued"
    OBVIOUS
  <1>3. Started(on, u) = [NoWorker EXCEPT !.on = on, !.upgrade = u, !.job = job,
                                          !.verifyUrls = urls]
    BY DEF Started
  <1> HIDE DEF urls, job
  <1>4. LET w == Started(on, u)
        IN /\ w \in Worker /\ w.on = on /\ w.upgrade = u
            /\ ~w.entered /\ ~w.joining /\ ~w.failed
           /\ w.verifyUrls = urls /\ w.job = job
    BY <1>1, <1>2, <1>3, NoWorkerFacts DEF Worker
  <1> QED
    BY <1>2, <1>4 DEF urls

\* A job of the worker goes on to pc.
LEMMA AtFacts ==
  ASSUME worker \in Worker, NEW f \in File,
         NEW pc \in {"queued", "reading", "applied", "pushing", "done"}
  PROVE  LET w == At(f, pc)
         IN /\ w \in Worker /\ w.on = worker.on /\ w.upgrade = worker.upgrade
            /\ w.joining = worker.joining /\ w.failed = worker.failed
            /\ w.verifyUrls = worker.verifyUrls /\ w.resumed = worker.resumed
            /\ w.newFiles = worker.newFiles /\ w.seen = worker.seen
            /\ \A g \in File : w.job[g] = IF g = f THEN pc ELSE worker.job[g]
  <1> DEFINE job == [worker.job EXCEPT ![f] = pc]
  <1>1. /\ job \in [File -> {"queued", "reading", "applied", "pushing", "done"}]
        /\ \A g \in File : job[g] = IF g = f THEN pc ELSE worker.job[g]
    BY DEF Worker
  <1>2. At(f, pc) = [worker EXCEPT !.job = job]
    BY DEF At
  <1> HIDE DEF job
  <1>3. LET w == At(f, pc)
        IN /\ w \in Worker /\ w.on = worker.on /\ w.upgrade = worker.upgrade
           /\ w.joining = worker.joining /\ w.failed = worker.failed
           /\ w.verifyUrls = worker.verifyUrls /\ w.resumed = worker.resumed
           /\ w.newFiles = worker.newFiles /\ w.seen = worker.seen
           /\ w.job = job
    BY <1>2, <1>1 DEF Worker
  <1> QED
    BY <1>1, <1>3

\* The files of an upgrade are files, and so are the jobs of a worker.
LEMMA JobsAreFiles ==
  ASSUME TypeOK
  PROVE  /\ worker.upgrade \in Upgrade => Files[worker.upgrade] \subseteq File
         /\ Jobs(worker) \subseteq File
         /\ worker.on = "patch" => Jobs(worker) \subseteq Patch
         /\ worker.on # "none" => worker.upgrade \in Upgrade
  <1>1. worker.on # "none" => worker.upgrade \in Upgrade
    BY DEF TypeOK, Worker
  <1>2. worker.upgrade \in Upgrade => Files[worker.upgrade] \subseteq File
    BY PrepareAssumption
  <1> QED
    BY <1>1, <1>2 DEF Jobs, Patches

-----------------------------------------------------------------------------
(* The worker.  Its upgrade is known, so that no step of it leaves an owner. *)

\* What is on the disk is not touched, the worker goes on with the same files.
LEMMA WorkerGoesOn ==
  ASSUME IInv, worker.on \in {"verify", "patch"},
         UNCHANGED <<client, queue, stored, base, sends>>,
         made' \in [File -> Made],
         worker' \in Worker, worker'.on = worker.on, worker'.upgrade = worker.upgrade,
         worker'.resumed = worker.resumed,
         worker.on # "verify" => worker'.verifyUrls = worker.verifyUrls,
         Checked', Excused',
         worker'.failed => worker.failed \/ \E f \in Jobs(worker) : Cause(f)
  PROVE  IInv'
  <1>1. TypeOK'
    BY DEF IInv, TypeOK, client
  <1>2. Jobs(worker') = Jobs(worker)
    BY DEF Jobs
  <1>3. Blamed'
    BY <1>2 DEF IInv, Blamed, Cause
  <1>4. Calling' /\ Owned'
    BY DEF IInv, Calling, Owned, client
  <1> QED
    BY <1>1, <1>3, <1>4 DEF IInv

LEMMA ShutdownStep ==
  ASSUME IInv, Shutdown
  PROVE  IInv'
  <1>1. /\ worker.on \in {"verify", "patch"} /\ worker \in Worker
        /\ worker' = [worker EXCEPT !.joining = TRUE]
        /\ UNCHANGED <<client, queue, stored, base, sends>> /\ made' \in [File -> Made]
    BY DEF IInv, TypeOK, Calling, Shutdown, Giving, disk
  <1>2. /\ worker' \in Worker /\ worker'.on = worker.on /\ worker'.upgrade = worker.upgrade
        /\ worker'.resumed = worker.resumed /\ worker'.verifyUrls = worker.verifyUrls
        /\ worker'.failed = worker.failed /\ worker'.job = worker.job
    BY <1>1 DEF Worker
  <1>3. Checked' /\ Excused'
    BY <1>1, <1>2 DEF IInv, Checked, Excused, client
  <1> QED
    BY <1>1, <1>2, <1>3, WorkerGoesOn

\* The worker is gone, with what it leaves in the queue.
LEMMA WorkerLeaves ==
  ASSUME IInv, worker' = NoWorker,
         UNCHANGED <<state, upgrade, hasCancelAction, stopping, sends>>,
         patchNewFiles' \in SUBSET Patch, queue' \in Seq(Event),
         stored' \in [File -> Shape], base' \in [File -> Found], made' \in [File -> Made],
         upgrade # NoUpgrade
  PROVE  IInv'
  <1>1. TypeOK'
    BY NoWorkerFacts DEF IInv, TypeOK
  <1>2. Checked' /\ Blamed' /\ Excused' /\ Calling' /\ Owned'
    BY NoWorkerFacts DEF Checked, Blamed, Excused, Calling, Owned
  <1> QED
    BY <1>1, <1>2 DEF IInv

LEMMA EnterStep ==
  ASSUME IInv, Enter
  PROVE  IInv'
  <1>1. /\ worker.on \in {"verify", "patch"} /\ worker \in Worker /\ upgrade # NoUpgrade
        /\ UNCHANGED <<client, stored, base, made, sends>> /\ made' \in [File -> Made]
        /\ patchNewFiles' \in SUBSET Patch /\ queue \in Seq(Event)
    BY DEF IInv, TypeOK, Owned, Enter, disk, client
  <1>2. CASE worker' = NoWorker /\ queue' = Append(queue, [event |-> "RES_CANCEL_DONE"])
    <2>1. [event |-> "RES_CANCEL_DONE"] \in Event
      BY DEF Event, Result
    <2>2. queue' \in Seq(Event)
      BY <1>1, <1>2, <2>1, QueueAppend
    <2> QED
      BY <1>1, <1>2, <2>2, WorkerLeaves DEF IInv, TypeOK, client
  <1>3. CASE worker' = [worker EXCEPT !.entered = TRUE] /\ UNCHANGED queue
    <2>1. /\ worker' \in Worker /\ worker'.on = worker.on /\ worker'.upgrade = worker.upgrade
          /\ worker'.resumed = worker.resumed /\ worker'.verifyUrls = worker.verifyUrls
          /\ worker'.failed = worker.failed /\ worker'.job = worker.job
      BY <1>1, <1>3 DEF Worker
    <2>2. Checked' /\ Excused'
      BY <1>1, <2>1 DEF IInv, Checked, Excused, client
    <2> QED
      BY <1>1, <1>3, <2>1, <2>2, WorkerGoesOn
  <1> QED
    BY <1>2, <1>3 DEF Enter, Posted

LEMMA DownloadedStep ==
  ASSUME IInv, Downloaded
  PROVE  IInv'
  <1>1. /\ worker.on = "download" /\ worker' = NoWorker
        /\ UNCHANGED <<state, upgrade, hasCancelAction, patchNewFiles, stopping, made, sends>>
        /\ queue' = Append(queue, [event |-> "RES_DOWNLOAD"])
    BY DEF Downloaded, Posted, client
  <1>2. PICK s \in [Files[worker.upgrade] -> Shape], b \in [Patches(worker.upgrade) -> Found] :
          /\ stored' = [f \in File |-> IF f \in DOMAIN s THEN s[f] ELSE stored[f]]
          /\ base' = [f \in File |-> IF f \in DOMAIN b THEN b[f] ELSE base[f]]
    BY DEF Downloaded
  <1>3. stored \in [File -> Shape] /\ base \in [File -> Found]
    BY DEF IInv, TypeOK
  <1>4. stored' \in [File -> Shape]
    BY <1>2, <1>3
  <1>5. base' \in [File -> Found]
    BY <1>2, <1>3
  <1>6. [event |-> "RES_DOWNLOAD"] \in Event
    BY DEF Event, Result
  <1>7. queue' \in Seq(Event) /\ upgrade # NoUpgrade
    BY <1>1, <1>6, QueueAppend DEF IInv, TypeOK, Owned
  <1> QED
    BY <1>1, <1>4, <1>5, <1>7, WorkerLeaves DEF IInv, TypeOK

LEMMA JoinedStep ==
  ASSUME IInv, Joined
  PROVE  IInv'
  <1>1. /\ worker.on \in {"verify", "patch"} /\ worker' = NoWorker
        /\ UNCHANGED <<state, upgrade, hasCancelAction, stopping, disk, sends>>
        /\ patchNewFiles' = NewFiles(worker)
    BY DEF IInv, Calling, Joined
  <1>2. \E e \in Result : queue' = Append(queue, [event |-> e])
    BY <1>1 DEF Joined, Posted, Result, checkDone, Broken, IInv, Calling
  <1>3. \A e \in Result : [event |-> e] \in Event
    BY DEF Event
  <1>4. queue' \in Seq(Event) /\ upgrade # NoUpgrade
    BY <1>1, <1>2, <1>3, QueueAppend DEF IInv, TypeOK, Owned
  <1>5. patchNewFiles' \in SUBSET Patch
    BY <1>1 DEF NewFiles, IInv, TypeOK, Worker
  <1> QED
    BY <1>1, <1>4, <1>5, WorkerLeaves DEF IInv, TypeOK, disk

\* A job that fails: there is something wrong with its file.
LEMMA ThrowErrorFacts ==
  ASSUME worker \in Worker, NEW f \in File
  PROVE  LET w == ThrowError(f)
         IN /\ w \in Worker /\ w.on = worker.on /\ w.upgrade = worker.upgrade
            /\ w.failed /\ w.verifyUrls = worker.verifyUrls /\ w.resumed = worker.resumed
  <1> DEFINE a == At(f, "done")
  <1>1. /\ a \in Worker /\ a.on = worker.on /\ a.upgrade = worker.upgrade
        /\ a.verifyUrls = worker.verifyUrls /\ a.resumed = worker.resumed
    BY AtFacts
  <1>2. ThrowError(f) = [a EXCEPT !.failed = TRUE]
    BY DEF ThrowError
  <1> HIDE DEF a
  <1> QED
    BY <1>1, <1>2 DEF Worker

LEMMA OpenStep ==
  ASSUME IInv, NEW f \in Jobs(worker), Open(f)
  PROVE  IInv'
  <1>1. /\ worker.on = "verify" /\ worker \in Worker /\ f \in File
        /\ worker.job[f] = "queued"
        /\ UNCHANGED <<client, queue, stored, base, sends>> /\ made' \in [File -> Made]
    BY JobsAreFiles DEF IInv, TypeOK, Open, disk
  <1>2. CASE ~checkDone /\ stored[f] = "missing"
    <2>1. worker' = ThrowError(f)
      BY <1>2 DEF Open
    <2>2. /\ worker' \in Worker /\ worker'.on = worker.on /\ worker'.upgrade = worker.upgrade
          /\ worker'.failed /\ worker'.verifyUrls = worker.verifyUrls
          /\ worker'.resumed = worker.resumed
      BY <1>1, <2>1, ThrowErrorFacts
    <2>3. Checked' /\ Excused'
      BY <1>1, <2>2 DEF IInv, Checked, Excused
    <2>4. Cause(f)
      BY <1>1, <1>2 DEF Cause
    <2> QED
      BY <1>1, <2>2, <2>3, <2>4, WorkerGoesOn
  <1>3. ASSUME NEW pc \in {"reading", "done"}, worker' = At(f, pc),
               pc = "done" => checkDone
        PROVE  IInv'
    <2>1. /\ worker' \in Worker /\ worker'.on = worker.on /\ worker'.upgrade = worker.upgrade
          /\ worker'.failed = worker.failed /\ worker'.verifyUrls = worker.verifyUrls
          /\ worker'.resumed = worker.resumed
          /\ \A g \in File : worker'.job[g] = IF g = f THEN pc ELSE worker.job[g]
      BY <1>1, <1>3, AtFacts
    <2>2. Checked'
      BY <1>1, <2>1 DEF IInv, Checked
    <2>3. worker.verifyUrls \subseteq File
      BY <1>1 DEF Worker
    <2>4. Excused'
      BY <1>1, <1>3, <2>1, <2>3 DEF IInv, Excused, checkDone, Broken, client
    <2> QED
      BY <1>1, <2>1, <2>2, <2>4, WorkerGoesOn
  <1>4. \/ ~checkDone /\ stored[f] = "missing"
        \/ \E pc \in {"reading", "done"} : worker' = At(f, pc) /\ (pc = "done" => checkDone)
    BY DEF Open
  <1> QED
    BY <1>2, <1>3, <1>4

\* A file is waited for no more only when its digest was read to the end and is right.
LEMMA HashStep ==
  ASSUME IInv, NEW f \in Jobs(worker), Hash(f)
  PROVE  IInv'
  <1>1. /\ worker.on = "verify" /\ worker \in Worker /\ f \in File
        /\ worker' = Hashed(f)
        /\ UNCHANGED <<client, queue, stored, base, sends>> /\ made' \in [File -> Made]
    BY JobsAreFiles DEF IInv, TypeOK, Hash, disk
  <1> DEFINE a == At(f, "done")
  <1>2. /\ a \in Worker /\ a.on = worker.on /\ a.upgrade = worker.upgrade
        /\ a.failed = worker.failed /\ a.verifyUrls = worker.verifyUrls
        /\ a.resumed = worker.resumed
        /\ \A g \in File : a.job[g] = IF g = f THEN "done" ELSE worker.job[g]
    BY <1>1, AtFacts
  <1>3. worker.verifyUrls \subseteq File
    BY <1>1 DEF Worker
  <1>4. CASE checkDone
    <2>1. worker' = a
      BY <1>1, <1>4 DEF Hashed
    <2> HIDE DEF a
    <2>2. Checked'
      BY <1>1, <1>2, <2>1 DEF IInv, Checked
    <2>3. Excused'
      BY <1>1, <1>2, <1>3, <1>4, <2>1 DEF IInv, Excused, checkDone, Broken, client
    <2> QED
      BY <1>1, <1>2, <2>1, <2>2, <2>3, WorkerGoesOn
  <1>5. CASE ~checkDone /\ (f \notin Summed \/ Digest(f) # "intact")
    <2>1. worker' = ThrowError(f) /\ Cause(f)
      BY <1>1, <1>5 DEF Hashed, Digest, Cause
    <2>2. /\ worker' \in Worker /\ worker'.on = worker.on /\ worker'.upgrade = worker.upgrade
          /\ worker'.failed /\ worker'.verifyUrls = worker.verifyUrls
          /\ worker'.resumed = worker.resumed
      BY <1>1, <2>1, ThrowErrorFacts
    <2>3. Checked' /\ Excused'
      BY <1>1, <2>2 DEF IInv, Checked, Excused
    <2> QED
      BY <1>1, <2>1, <2>2, <2>3, WorkerGoesOn
  <1>6. CASE ~checkDone /\ f \in Summed /\ Digest(f) = "intact"
    <2>1. worker' = [a EXCEPT !.verifyUrls = @ \ {f}] /\ stored[f] = "intact"
      BY <1>1, <1>6 DEF Hashed, Digest
    <2> HIDE DEF a
    <2>2. /\ worker' \in Worker /\ worker'.on = worker.on /\ worker'.upgrade = worker.upgrade
          /\ worker'.failed = worker.failed /\ worker'.verifyUrls = worker.verifyUrls \ {f}
          /\ worker'.resumed = worker.resumed
          /\ \A g \in File : worker'.job[g] = IF g = f THEN "done" ELSE worker.job[g]
      BY <1>2, <2>1 DEF Worker
    <2>3. Checked'
      BY <1>1, <1>6, <2>1, <2>2 DEF IInv, Checked
    <2>4. Excused'
      BY <1>1, <1>3, <2>2 DEF IInv, Excused, client
    <2> QED
      BY <1>1, <2>2, <2>3, <2>4, WorkerGoesOn
  <1> QED
    BY <1>4, <1>5, <1>6

\* Every patch is made of its file, or there is a reason why not.
LEMMA ApplyStep ==
  ASSUME IInv, NEW f \in Jobs(worker), Apply(f)
  PROVE  IInv'
  <1>1. /\ worker.on = "patch" /\ worker \in Worker /\ f \in File
        /\ UNCHANGED <<client, queue, stored, base, sends>>
    BY JobsAreFiles DEF IInv, TypeOK, Apply
  <1>2. made' \in [File -> Made]
    BY <1>1 DEF IInv, TypeOK, Apply, Dispatch, Made
  <1>3. CASE worker' = ThrowError(f) /\ Cause(f)
    <2>1. /\ worker' \in Worker /\ worker'.on = worker.on /\ worker'.upgrade = worker.upgrade
          /\ worker'.failed /\ worker'.verifyUrls = worker.verifyUrls
          /\ worker'.resumed = worker.resumed
      BY <1>1, <1>3, ThrowErrorFacts
    <2>2. Checked' /\ Excused'
      BY <1>1, <2>1 DEF Checked, Excused
    <2> QED
      BY <1>1, <1>2, <1>3, <2>1, <2>2, WorkerGoesOn
  <1>4. ASSUME NEW pc \in {"done", "applied"}, worker' = At(f, pc)
        PROVE  IInv'
    <2>1. /\ worker' \in Worker /\ worker'.on = worker.on /\ worker'.upgrade = worker.upgrade
          /\ worker'.failed = worker.failed /\ worker'.verifyUrls = worker.verifyUrls
          /\ worker'.resumed = worker.resumed
      BY <1>1, <1>4, AtFacts
    <2>2. Checked' /\ Excused'
      BY <1>1, <2>1 DEF Checked, Excused
    <2> QED
      BY <1>1, <1>2, <2>1, <2>2, WorkerGoesOn
  <1>5. \/ worker' = ThrowError(f) /\ Cause(f)
        \/ \E pc \in {"done", "applied"} : worker' = At(f, pc)
    BY <1>1 DEF Apply, Cause, Dispatch
  <1> QED
    BY <1>3, <1>4, <1>5

LEMMA PushBeginStep ==
  ASSUME IInv, NEW f \in Jobs(worker), PushBegin(f)
  PROVE  IInv'
  <1> DEFINE a == At(f, "pushing")
  <1>1. /\ worker.on = "patch" /\ worker \in Worker /\ f \in File
        /\ UNCHANGED <<client, queue, stored, base, sends>> /\ made' \in [File -> Made]
        /\ worker' = [a EXCEPT !.seen[f] = worker.newFiles]
    BY JobsAreFiles DEF IInv, TypeOK, PushBegin, disk
  <1>2. /\ a \in Worker /\ a.on = worker.on /\ a.upgrade = worker.upgrade
        /\ a.failed = worker.failed /\ a.verifyUrls = worker.verifyUrls
        /\ a.resumed = worker.resumed /\ worker.newFiles \in SUBSET Patch
    BY <1>1, AtFacts DEF Worker
  <1> HIDE DEF a
  <1>3. /\ worker' \in Worker /\ worker'.on = worker.on /\ worker'.upgrade = worker.upgrade
        /\ worker'.failed = worker.failed /\ worker'.verifyUrls = worker.verifyUrls
        /\ worker'.resumed = worker.resumed
    BY <1>1, <1>2 DEF Worker
  <1>4. Checked' /\ Excused'
    BY <1>1, <1>3 DEF Checked, Excused
  <1> QED
    BY <1>1, <1>3, <1>4, WorkerGoesOn

LEMMA PushEndStep ==
  ASSUME IInv, NEW f \in Jobs(worker), PushEnd(f)
  PROVE  IInv'
  <1> DEFINE a == At(f, "done")
             new == worker.seen[f] \cup {f}
  <1>1. /\ worker.on = "patch" /\ worker \in Worker /\ f \in File /\ f \in Patch
        /\ UNCHANGED <<client, queue, stored, base, sends>> /\ made' \in [File -> Made]
        /\ worker' = [a EXCEPT !.newFiles = new]
    BY JobsAreFiles DEF IInv, TypeOK, PushEnd, disk
  <1>2. /\ a \in Worker /\ a.on = worker.on /\ a.upgrade = worker.upgrade
        /\ a.failed = worker.failed /\ a.verifyUrls = worker.verifyUrls
        /\ a.resumed = worker.resumed /\ new \in SUBSET Patch
    BY <1>1, AtFacts DEF Worker
  <1> HIDE DEF a, new
  <1>3. /\ worker' \in Worker /\ worker'.on = worker.on /\ worker'.upgrade = worker.upgrade
        /\ worker'.failed = worker.failed /\ worker'.verifyUrls = worker.verifyUrls
        /\ worker'.resumed = worker.resumed
    BY <1>1, <1>2 DEF Worker
  <1>4. Checked' /\ Excused'
    BY <1>1, <1>3 DEF Checked, Excused
  <1> QED
    BY <1>1, <1>3, <1>4, WorkerGoesOn

-----------------------------------------------------------------------------
(* The end of the process, the handlers, and the messages. *)

LEMMA DiesStep ==
  ASSUME IInv, Dies, UNCHANGED <<disk, sends>>
  PROVE  IInv'
  <1>1. /\ worker' = NoWorker /\ queue' = <<>> /\ state' = "WR_OFFLINE" /\ upgrade' = NoUpgrade
        /\ hasCancelAction' = FALSE /\ patchNewFiles' = {} /\ stopping' = FALSE
        /\ UNCHANGED <<stored, base, made, sends>>
    BY DEF Dies, disk
  <1>2. queue' \in Seq(Event)
    BY <1>1, EmptySeq
  <1>3. TypeOK'
    BY <1>1, <1>2, NoWorkerFacts DEF IInv, TypeOK
  <1>4. Checked' /\ Blamed' /\ Excused' /\ Calling' /\ Owned'
    BY <1>1, NoWorkerFacts DEF Checked, Blamed, Excused, Calling, Owned
  <1> QED
    BY <1>3, <1>4 DEF IInv

\* A handler that starts the worker, or leaves none: an upgrade is there, or no result
\* is waited for.
LEMMA WorkerChanges ==
  ASSUME IInv, UNCHANGED <<disk, sends>>,
         state' \in {"WR_IDLE", "WR_DOWNLOAD", "WR_VERIFY", "WR_PATCH", "WR_WAIT",
                     "WR_DEPLOY", "WR_CANCEL", "WR_ERROR"},
         upgrade' \in Upgrade \cup {NoUpgrade},
         hasCancelAction' \in BOOLEAN, stopping' \in BOOLEAN,
         patchNewFiles' \in SUBSET Patch, queue' \in Seq(Event), Owned',
         worker' = NoWorker \/
           \E on \in {"download", "verify", "patch"}, u \in Upgrade : worker' = Started(on, u)
  PROVE  IInv'
  <1>1. CASE worker' = NoWorker
    <2>1. TypeOK'
      BY <1>1, NoWorkerFacts DEF IInv, TypeOK, disk
    <2>2. Checked' /\ Blamed' /\ Excused' /\ Calling'
      BY <1>1, NoWorkerFacts DEF Checked, Blamed, Excused, Calling
    <2> QED
      BY <2>1, <2>2 DEF IInv
  <1>2. ASSUME NEW on \in {"download", "verify", "patch"}, NEW u \in Upgrade,
               worker' = Started(on, u)
        PROVE  IInv'
    <2>1. /\ worker' \in Worker /\ worker'.on = on /\ worker'.upgrade = u
          /\ ~worker'.entered /\ ~worker'.joining /\ ~worker'.failed
          /\ on = "verify" => worker'.verifyUrls = Files[u]
          /\ on # "verify" => worker'.verifyUrls = {}
          /\ \A f \in File : worker'.job[f] = "queued"
      <3> DEFINE w == Started(on, u)
      <3>1. /\ w \in Worker /\ w.on = on /\ w.upgrade = u
            /\ ~w.entered /\ ~w.joining /\ ~w.failed
            /\ on = "verify" => w.verifyUrls = Files[u]
            /\ on # "verify" => w.verifyUrls = {}
            /\ \A f \in File : w.job[f] = "queued"
        BY StartedFacts
      <3>2. worker' = w
        BY <1>2
      <3> HIDE DEF w
      <3> QED
        BY <3>1, <3>2
    <2>2. u # NoUpgrade /\ Files[u] \subseteq File
      BY PrepareAssumption
    <2>3. TypeOK'
      BY <2>1, <2>2 DEF IInv, TypeOK, disk
    <2>4. Checked' /\ Blamed' /\ Excused' /\ Calling'
      BY <2>1, <2>2 DEF Checked, Blamed, Excused, Calling
    <2> QED
      BY <2>3, <2>4 DEF IInv
  <1> QED
    BY <1>1, <1>2

\* A handler that leaves the worker as it is.
LEMMA WorkerKept ==
  ASSUME IInv, UNCHANGED <<patchNewFiles, disk>>,
         upgrade' \in Upgrade \cup {NoUpgrade}, stopping' \in BOOLEAN,
         state' \in {"WR_IDLE", "WR_DOWNLOAD", "WR_VERIFY", "WR_PATCH", "WR_WAIT",
                     "WR_DEPLOY", "WR_CANCEL", "WR_ERROR"},
         sends' \in 0 .. MaxSends, queue' \in Seq(Event), Owned',
         worker' = worker,
         hasCancelAction' \in BOOLEAN, hasCancelAction => hasCancelAction'
  PROVE  IInv'
  <1>1. TypeOK'
    BY DEF IInv, TypeOK, disk
  <1>2. Checked' /\ Blamed' /\ Calling'
    BY DEF IInv, Checked, Blamed, Calling, Jobs, Patches, Cause, disk
  <1>3. Excused'
    BY DEF IInv, Excused
  <1> QED
    BY <1>1, <1>2, <1>3 DEF IInv

LEMMA TakeBackStep ==
  ASSUME IInv, TakeBack
  PROVE  IInv'
  <1>0. /\ UNCHANGED <<state, upgrade, patchNewFiles, queue, disk, sends>>
        /\ stopping' = TRUE /\ hasCancelAction' = FALSE /\ worker' = Resumed
    BY DEF TakeBack
  <1> DEFINE r == worker.resumed \/ Broken
  <1>1. worker \in Worker /\ r \in BOOLEAN /\ worker' = [worker EXCEPT !.resumed = r]
    BY <1>0 DEF IInv, TypeOK, Worker, Resumed, Broken
  <1>2. worker.on = "verify" /\ (hasCancelAction \/ worker.resumed) => r
    BY DEF Broken
  <1> HIDE DEF r
  <1>3. /\ worker' \in Worker /\ worker'.on = worker.on /\ worker'.upgrade = worker.upgrade
        /\ worker'.entered = worker.entered /\ worker'.joining = worker.joining
        /\ worker'.failed = worker.failed
        /\ worker'.job = worker.job /\ worker'.verifyUrls = worker.verifyUrls
        /\ worker'.resumed = r
    BY <1>1 DEF Worker
  <1>4. TypeOK'
    BY <1>0, <1>3 DEF IInv, TypeOK, disk
  <1>5. Checked' /\ Blamed' /\ Calling'
    BY <1>0, <1>3 DEF IInv, Checked, Blamed, Calling, Jobs, Patches, Cause, disk
  <1>6. Excused'
    BY <1>2, <1>3 DEF IInv, Excused
  <1>7. Owned'
    BY <1>0, <1>3 DEF IInv, Owned
  <1> QED
    BY <1>4, <1>5, <1>6, <1>7 DEF IInv

\* The queue of a client without an upgrade holds no result, when its first event is
\* taken and when one is added that is none.
LEMMA OwnedTail ==
  ASSUME IInv, queue # <<>>, queue' = Tail(queue), worker' = NoWorker \/ worker' = worker,
         upgrade' = upgrade
  PROVE  Owned' /\ queue' \in Seq(Event)
  BY QueueTail, NoWorkerFacts DEF IInv, TypeOK, Owned

LEMMA OwnedKnown ==
  ASSUME IInv, upgrade' # NoUpgrade
  PROVE  Owned'
  BY DEF Owned

\* A result is handled by a client that has an upgrade.
LEMMA ResultOwned ==
  ASSUME IInv, NEW e \in Result, FirstIs(e)
  PROVE  upgrade \in Upgrade /\ queue # <<>>
  <1>1. queue # <<>> /\ Head(queue).event = e
    BY DEF FirstIs
  <1>2. \E k \in DOMAIN queue : Head(queue) = queue[k]
    BY <1>1, QueueTail DEF IInv, TypeOK
  <1> QED
    BY <1>1, <1>2 DEF IInv, TypeOK, Owned

LEMMA CtlDownloadStep ==
  ASSUME IInv, CtlDownload
  PROVE  IInv'
  <1>1. /\ queue # <<>> /\ Head(queue).event = "CTL_DOWNLOAD" /\ state # "WR_OFFLINE"
        /\ upgrade' = Head(queue).upgrade /\ queue' = Tail(queue) /\ stopping' = FALSE
        /\ UNCHANGED <<hasCancelAction, patchNewFiles, disk, sends>>
        /\ hasCancelAction \in BOOLEAN /\ sends \in 0 .. MaxSends
        /\ state \in {"WR_OFFLINE", "WR_IDLE", "WR_DOWNLOAD", "WR_VERIFY", "WR_PATCH", "WR_WAIT",
                      "WR_DEPLOY", "WR_CANCEL", "WR_ERROR"}
    BY DEF CtlDownload, FirstIs, IInv, TypeOK
  <1>2. Head(queue) \in Event /\ queue' \in Seq(Event)
    BY <1>1, QueueTail DEF IInv, TypeOK
  <1>3. upgrade' \in Upgrade /\ upgrade' # NoUpgrade
    BY <1>1, <1>2, PrepareAssumption DEF Event, Control, Result
  <1>4. Owned'
    BY <1>3, OwnedKnown
  <1>5. CASE UNCHANGED <<state, worker>>
    BY <1>1, <1>2, <1>3, <1>4, <1>5, WorkerKept
  <1>6. CASE state' = "WR_DOWNLOAD" /\ worker' = Started("download", upgrade')
    <2>1. patchNewFiles' \in SUBSET Patch
      BY <1>1 DEF IInv, TypeOK
    <2> QED
      BY <1>1, <1>2, <1>3, <1>4, <1>6, <2>1, WorkerChanges
  <1> QED
    BY <1>5, <1>6 DEF CtlDownload

LEMMA CtlDeployStep ==
  ASSUME IInv, CtlDeploy
  PROVE  IInv'
  <1>1. /\ queue # <<>> /\ state # "WR_OFFLINE" /\ stopping' = FALSE
        /\ UNCHANGED <<upgrade, hasCancelAction, patchNewFiles, disk, sends>>
        /\ hasCancelAction \in BOOLEAN /\ sends \in 0 .. MaxSends
        /\ state \in {"WR_OFFLINE", "WR_IDLE", "WR_DOWNLOAD", "WR_VERIFY", "WR_PATCH", "WR_WAIT",
                      "WR_DEPLOY", "WR_CANCEL", "WR_ERROR"}
        /\ queue \in Seq(Event) /\ upgrade' \in Upgrade \cup {NoUpgrade}
        /\ patchNewFiles' \in SUBSET Patch
    BY DEF CtlDeploy, FirstIs, IInv, TypeOK
  <1>2. CASE queue' = Tail(queue) /\ UNCHANGED <<state, worker>>
    BY <1>1, <1>2, OwnedTail, WorkerKept
  <1>3. CASE /\ upgrade # NoUpgrade /\ state' = "WR_DEPLOY" /\ worker' = NoWorker
             /\ queue' \in {Tail(queue), Append(Tail(queue), [event |-> "RES_ERROR"])}
    <2>1. [event |-> "RES_ERROR"] \in Event
      BY DEF Event, Result
    <2>2. queue' \in Seq(Event)
      BY <1>1, <1>3, <2>1, QueueTail, QueueTurn
    <2>3. Owned'
      BY <1>1, <1>3, OwnedKnown
    <2> QED
      BY <1>1, <1>3, <2>2, <2>3, WorkerChanges
  <1> QED
    BY <1>2, <1>3 DEF CtlDeploy, IgnoresDeploy

LEMMA CtlCancelStep ==
  ASSUME IInv, CtlCancel
  PROVE  IInv'
  <1>1. /\ queue # <<>> /\ hasCancelAction' = TRUE /\ state # "WR_OFFLINE"
        /\ UNCHANGED <<upgrade, patchNewFiles, stopping, worker, disk, sends>>
        /\ upgrade \in Upgrade \cup {NoUpgrade} /\ stopping \in BOOLEAN
        /\ queue \in Seq(Event) /\ sends \in 0 .. MaxSends
        /\ state' \in {state, "WR_CANCEL"}
        /\ state \in {"WR_OFFLINE", "WR_IDLE", "WR_DOWNLOAD", "WR_VERIFY", "WR_PATCH", "WR_WAIT",
                      "WR_DEPLOY", "WR_CANCEL", "WR_ERROR"}
    BY DEF CtlCancel, FirstIs, IInv, TypeOK
  <1>2. CASE queue' = Tail(queue)
    BY <1>1, <1>2, OwnedTail, WorkerKept
  <1>3. CASE /\ upgrade # NoUpgrade
             /\ queue' = Append(Tail(queue), [event |-> "RES_CANCEL_DONE"])
    <2>1. [event |-> "RES_CANCEL_DONE"] \in Event
      BY DEF Event, Result
    <2>2. queue' \in Seq(Event)
      BY <1>1, <1>3, <2>1, QueueTurn
    <2>3. Owned'
      BY <1>1, <1>3, OwnedKnown
    <2> QED
      BY <1>1, <2>2, <2>3, WorkerKept
  <1> QED
    BY <1>2, <1>3 DEF CtlCancel

LEMMA CtlClearStep ==
  ASSUME IInv, CtlClear
  PROVE  IInv'
  <1>1. /\ queue # <<>> /\ stopping' = FALSE /\ state' = "WR_IDLE"
        /\ worker' = NoWorker /\ queue' = Tail(queue) /\ hasCancelAction' \in BOOLEAN
        /\ UNCHANGED <<upgrade, patchNewFiles, disk, sends>>
        /\ upgrade' \in Upgrade \cup {NoUpgrade} /\ patchNewFiles' \in SUBSET Patch
    BY DEF CtlClear, FirstIs, IInv, TypeOK
  <1>2. Owned' /\ queue' \in Seq(Event)
    BY <1>1, OwnedTail
  <1> QED
    BY <1>1, <1>2, WorkerChanges

LEMMA ResDownloadStep ==
  ASSUME IInv, ResDownload
  PROVE  IInv'
  <1>1. upgrade \in Upgrade /\ queue # <<>>
    BY ResultOwned DEF ResDownload, Result
  <1>2. /\ state' = "WR_VERIFY" /\ worker' = Started("verify", upgrade) /\ queue' = Tail(queue)
        /\ UNCHANGED <<upgrade, hasCancelAction, patchNewFiles, stopping, disk, sends>>
        /\ hasCancelAction' \in BOOLEAN /\ patchNewFiles' \in SUBSET Patch
        /\ stopping' \in BOOLEAN /\ queue \in Seq(Event)
    BY DEF ResDownload, IInv, TypeOK
  <1>3. queue' \in Seq(Event) /\ Owned'
    BY <1>1, <1>2, QueueTail, OwnedKnown, PrepareAssumption
  <1> QED
    BY <1>1, <1>2, <1>3, WorkerChanges

LEMMA ResVerifyStep ==
  ASSUME IInv, ResVerify
  PROVE  IInv'
  <1>1. upgrade \in Upgrade /\ queue # <<>>
    BY ResultOwned DEF ResVerify, Result
  <1>2. /\ patchNewFiles' = {} /\ queue' = Tail(queue) /\ queue \in Seq(Event)
        /\ UNCHANGED <<upgrade, hasCancelAction, stopping, disk, sends>>
        /\ hasCancelAction' \in BOOLEAN /\ patchNewFiles' \in SUBSET Patch
        /\ stopping' \in BOOLEAN
    BY DEF ResVerify, IInv, TypeOK
  <1>3. queue' \in Seq(Event) /\ Owned'
    BY <1>1, <1>2, QueueTail, OwnedKnown, PrepareAssumption
  <1>4. CASE state' = "WR_PATCH" /\ worker' = Started("patch", upgrade)
    BY <1>1, <1>2, <1>3, <1>4, WorkerChanges
  <1>5. CASE state' = "WR_WAIT" /\ worker' = worker
    <2>1. TypeOK'
      BY <1>2, <1>3, <1>5 DEF IInv, TypeOK, disk
    <2>2. Checked' /\ Blamed' /\ Excused' /\ Calling'
      BY <1>2, <1>5 DEF IInv, Checked, Blamed, Excused, Calling, Jobs, Patches, Cause, disk
    <2> QED
      BY <1>3, <2>1, <2>2 DEF IInv
  <1> QED
    BY <1>4, <1>5 DEF ResVerify

LEMMA ResEndsStep ==
  ASSUME IInv, ResError \/ ResCancelDone
  PROVE  IInv'
  <1>1. /\ queue # <<>> /\ state' \in {"WR_ERROR", "WR_IDLE"} /\ queue' = Tail(queue)
        /\ UNCHANGED <<upgrade, hasCancelAction, patchNewFiles, stopping, worker, disk, sends>>
        /\ sends \in 0 .. MaxSends /\ upgrade \in Upgrade \cup {NoUpgrade}
        /\ hasCancelAction \in BOOLEAN /\ stopping \in BOOLEAN
    BY DEF ResError, ResCancelDone, FirstIs, IInv, TypeOK
  <1> QED
    BY <1>1, OwnedTail, WorkerKept

LEMMA SendStep ==
  ASSUME IInv, NEW e \in Event, e.event \notin Result, Send(e)
  PROVE  IInv'
  <1>1. /\ state # "WR_OFFLINE" /\ sends < MaxSends /\ sends' = sends + 1
        /\ queue' = Append(queue, e) /\ UNCHANGED <<client, worker, disk>>
        /\ sends \in 0 .. MaxSends /\ MaxSends \in Nat /\ upgrade \in Upgrade \cup {NoUpgrade}
        /\ hasCancelAction \in BOOLEAN /\ stopping \in BOOLEAN
        /\ state \in {"WR_OFFLINE", "WR_IDLE", "WR_DOWNLOAD", "WR_VERIFY", "WR_PATCH", "WR_WAIT",
                      "WR_DEPLOY", "WR_CANCEL", "WR_ERROR"}
    BY PrepareAssumption DEF Send, IInv, TypeOK
  <1>2. sends' \in 0 .. MaxSends
    BY <1>1
  <1>3. queue' \in Seq(Event) /\ Owned'
    BY <1>1, QueueAppend DEF IInv, TypeOK, Owned, client
  <1> QED
    BY <1>1, <1>2, <1>3, WorkerKept DEF client

LEMMA BootStep ==
  ASSUME IInv, Boot
  PROVE  IInv'
  <1>1. /\ state' = "WR_IDLE" /\ sends \in 0 .. MaxSends /\ queue \in Seq(Event)
        /\ UNCHANGED <<upgrade, hasCancelAction, patchNewFiles, stopping, queue, worker, disk,
                       sends>>
        /\ upgrade \in Upgrade \cup {NoUpgrade}
        /\ hasCancelAction \in BOOLEAN /\ stopping \in BOOLEAN
    BY DEF Boot, IInv, TypeOK
  <1>2. Owned'
    BY <1>1 DEF IInv, Owned
  <1> QED
    BY <1>1, <1>2, WorkerKept

-----------------------------------------------------------------------------
(* The invariant, and what follows from it. *)

LEMMA InitIInv == Init => IInv
  <1>1. SUFFICES ASSUME Init PROVE IInv
    OBVIOUS
  <1>2. queue \in Seq(Event) /\ DOMAIN queue = {} /\ 0 \in 0 .. MaxSends
    BY <1>1, EmptySeq, PrepareAssumption DEF Init
  <1>3. TypeOK
    BY <1>1, <1>2, NoWorkerFacts DEF Init, TypeOK, Shape, Found, Made
  <1>4. Checked /\ Blamed /\ Excused /\ Calling /\ Owned
    BY <1>1, <1>2, NoWorkerFacts DEF Init, Checked, Blamed, Excused, Calling, Owned
  <1> QED
    BY <1>3, <1>4 DEF IInv

LEMMA StepIInv == IInv /\ [Next]_vars => IInv'
  <1>1. SUFFICES ASSUME IInv, [Next]_vars PROVE IInv'
    OBVIOUS
  <1>2. CASE UNCHANGED vars
    BY <1>1, <1>2 DEF IInv, TypeOK, Checked, Blamed, Excused, Calling, Owned, Jobs, Patches,
                      Cause, vars, client, disk
  <1>3. CASE WorkerStep
    BY <1>1, <1>3, DownloadedStep, EnterStep, ShutdownStep, JoinedStep, OpenStep, HashStep, ApplyStep,
       PushBeginStep, PushEndStep DEF WorkerStep
  <1>4. CASE Terminate \/ PushCrash \/ StopTerminates
    BY <1>1, <1>4, DiesStep DEF Terminate, PushCrash, StopTerminates
  <1>5. CASE Handle
    BY <1>1, <1>5, TakeBackStep, CtlDownloadStep, CtlDeployStep, CtlCancelStep, CtlClearStep,
       ResDownloadStep, ResVerifyStep, ResEndsStep DEF Handle
  <1>6. CASE Boot
    BY <1>1, <1>6, BootStep
  <1>7. ASSUME NEW u \in Upgrade, Send([event |-> "CTL_DOWNLOAD", upgrade |-> u])
        PROVE  IInv'
    <2> DEFINE e == [event |-> "CTL_DOWNLOAD", upgrade |-> u]
    <2>1. e \in Event /\ e.event \notin Result
      BY DEF Event, Result
    <2>2. Send(e)
      BY <1>7
    <2> HIDE DEF e
    <2> QED
      BY <1>1, <2>1, <2>2, SendStep
  <1>8. ASSUME NEW c \in Control, Send([event |-> c])
        PROVE  IInv'
    <2> DEFINE e == [event |-> c]
    <2>1. e \in Event /\ e.event \notin Result
      BY DEF Event, Result, Control
    <2>2. Send(e)
      BY <1>8
    <2> HIDE DEF e
    <2> QED
      BY <1>1, <2>1, <2>2, SendStep
  <1> QED
    BY <1>1, <1>2, <1>3, <1>4, <1>5, <1>6, <1>7, <1>8 DEF Next

\* The inductive invariant holds.
THEOREM Invariance == Spec => []IInv
  <1> QED
    BY InitIInv, StepIInv, PTL DEF Spec

\* The client, its worker and its files have their types; a worker is there exactly
\* when it has an upgrade (Client::Hpr, workThread).
THEOREM TypeCorrect == Spec => []TypeOK
  <1>1. IInv => TypeOK
    BY DEF IInv
  <1> QED
    BY <1>1, Invariance, PTL

\* Which of its results a worker posts when its jobs are joined.
LEMMA JoinedPosts ==
  ASSUME IInv, Joined
  PROVE  /\ Posts("RES_VERIFY") => ~worker.failed /\ worker.verifyUrls = {}
         /\ Posts("RES_ERROR") => worker.failed \/ (~checkDone /\ worker.verifyUrls # {})
  <1>1. /\ \A e \in Result : [event |-> e] \in Event
        /\ {"RES_VERIFY", "RES_ERROR", "RES_CANCEL_DONE", "RES_PATCH"} \subseteq Result
        /\ queue \in Seq(Event)
    BY DEF Event, Result, IInv, TypeOK
  <1>2. ASSUME NEW e \in Result, Posted(e)
        PROVE  \A x : Posts(x) => x = e
    <2> DEFINE event == [event |-> e]
    <2>1. queue' = Append(queue, event) /\ event \in Event
      BY <1>1, <1>2 DEF Posted
    <2>2. queue'[Len(queue')] = event
      BY <1>1, <2>1, QueueAppend
    <2> QED
      BY <2>2 DEF Posts
  <1>3. \/ /\ Posted("RES_ERROR")
           /\ worker.failed \/ (~checkDone /\ worker.verifyUrls # {})
        \/ Posted("RES_CANCEL_DONE")
        \/ Posted("RES_VERIFY") /\ ~worker.failed /\ worker.verifyUrls = {}
        \/ Posted("RES_PATCH")
    BY DEF Joined, checkDone, Broken
  <1>4. CASE Posted("RES_ERROR") /\ (worker.failed \/ (~checkDone /\ worker.verifyUrls # {}))
    BY <1>1, <1>2, <1>4
  <1>5. CASE Posted("RES_CANCEL_DONE")
    BY <1>1, <1>2, <1>5
  <1>6. CASE Posted("RES_VERIFY") /\ ~worker.failed /\ worker.verifyUrls = {}
    BY <1>1, <1>2, <1>6
  <1>7. CASE Posted("RES_PATCH")
    BY <1>1, <1>2, <1>7
  <1> QED
    BY <1>3, <1>4, <1>5, <1>6, <1>7

\* A verification that says yes has found every file of the package intact, with any
\* number of files and whatever comes between (Core::verify).
THEOREM VerificationsTrue == Spec => VerifiedIsIntact
  <1>1. ASSUME IInv, worker.on = "verify", Joined, Posts("RES_VERIFY")
        PROVE  \A f \in Files[worker.upgrade] : stored[f] = "intact" /\ f \in Summed
    BY <1>1, JoinedPosts DEF IInv, Checked
  <1>2. IInv /\ [Next]_vars =>
          [worker.on = "verify" /\ Joined /\ Posts("RES_VERIFY") =>
             \A f \in Files[worker.upgrade] : stored[f] = "intact" /\ f \in Summed]_vars
    BY <1>1
  <1> QED
    BY <1>2, Invariance, PTL DEF Spec, VerifiedIsIntact

\* An error of the worker is about a file of its package, unless a cancellation was
\* taken back while it ran (Core::verify, Core::patch).
THEOREM ErrorsHaveCause == Spec => ErrorHasCause
  <1>1. ASSUME IInv, worker.on \in {"verify", "patch"}, Joined, Posts("RES_ERROR")
        PROVE  worker.resumed \/ \E f \in Jobs(worker) : Cause(f)
    <2>1. worker.failed \/ (~checkDone /\ worker.verifyUrls # {})
      BY <1>1, JoinedPosts
    <2>2. CASE worker.failed
      BY <1>1, <2>2 DEF IInv, Blamed
    <2>3. CASE ~worker.failed /\ ~checkDone /\ worker.verifyUrls # {}
      <3>1. worker.on = "verify" /\ ~hasCancelAction
        BY <1>1, <2>3 DEF IInv, Calling, checkDone, Broken
      <3>2. PICK f \in worker.verifyUrls : TRUE
        BY <2>3
      <3>3. f \in Jobs(worker)
        BY <1>1, <3>1, <3>2 DEF IInv, Checked, Jobs
      <3>4. worker.job[f] = "done"
        BY <1>1, <3>3 DEF Joined
      <3> QED
        BY <1>1, <2>3, <3>1, <3>2, <3>4 DEF IInv, Excused
    <2> QED
      BY <2>1, <2>2, <2>3
  <1>2. IInv /\ [Next]_vars =>
          [worker.on \in {"verify", "patch"} /\ Joined /\ Posts("RES_ERROR") =>
             worker.resumed \/ \E f \in Jobs(worker) : Cause(f)]_vars
    BY <1>1
  <1> QED
    BY <1>2, Invariance, PTL DEF Spec, ErrorHasCause

-----------------------------------------------------------------------------
(* The pool that verify() and patch() give their jobs to: any threads, at  *)
(* least one.  EachJobOnce needs the types only; that join() comes after   *)
(* the last job needs who may have left the loop when (LeavesLast).        *)

\* Who has left the loop saw the flag with nothing queued, and the owner joins
\* them all.
LeavesLast ==
  /\ shutdown <=> owner \in {"notify", "join", "joined"}
  /\ \A w \in Thread : phase[w] = "exited" => shutdown /\ jobs = <<>>
  /\ owner = "joined" => \A w \in Thread : phase[w] = "exited"

PoolInv ==
  PoolTypeOK /\ EachJobOnce /\ LeavesLast /\ QueuedJobHasWorker /\ NobodySleepsThrough

-----------------------------------------------------------------------------
(* The queue as a set. *)

LEMMA QueuedAppend ==
  ASSUME NEW j, PoolTypeOK, j \in Job
  PROVE  /\ Append(jobs, j) \in Seq(Job)
         /\ Append(jobs, j) # <<>>
         /\ {Append(jobs, j)[i] : i \in 1 .. Len(Append(jobs, j))} = Queued \cup {j}
         /\ (\A i, k \in 1 .. Len(jobs) : jobs[i] = jobs[k] => i = k) /\ j \notin Queued =>
              \A i, k \in 1 .. Len(Append(jobs, j)) :
                Append(jobs, j)[i] = Append(jobs, j)[k] => i = k
  BY AppendProperties DEF PoolTypeOK, Queued

LEMMA QueuedTail ==
  ASSUME PoolTypeOK, jobs # <<>>,
         \A i, k \in 1 .. Len(jobs) : jobs[i] = jobs[k] => i = k
  PROVE  /\ Tail(jobs) \in Seq(Job)
         /\ Head(jobs) \in Job
         /\ Head(jobs) \in Queued
         /\ {Tail(jobs)[i] : i \in 1 .. Len(Tail(jobs))} = Queued \ {Head(jobs)}
         /\ \A i, k \in 1 .. Len(Tail(jobs)) : Tail(jobs)[i] = Tail(jobs)[k] => i = k
<1>1. /\ jobs \in Seq(Job)
      /\ Len(jobs) \in Nat
      /\ Len(jobs) >= 1
  BY EmptySeq, LenProperties, SeqEqual DEF PoolTypeOK
<1>2. /\ Tail(jobs) \in Seq(Job)
      /\ Head(jobs) = jobs[1]
      /\ Len(Tail(jobs)) = Len(jobs) - 1
      /\ \A i \in 1 .. Len(jobs) - 1 : Tail(jobs)[i] = jobs[i + 1]
  BY <1>1, HeadTailProperties
<1>3. Head(jobs) \in Job /\ Head(jobs) \in Queued
  BY <1>1, <1>2, ElementOfSeq DEF Queued
<1>4. ASSUME NEW x \in Queued, x # Head(jobs)
      PROVE  \E i \in 1 .. Len(Tail(jobs)) : Tail(jobs)[i] = x
  <2>1. PICK k \in 1 .. Len(jobs) : jobs[k] = x
    BY DEF Queued
  <2>2. k - 1 \in 1 .. Len(Tail(jobs)) /\ Tail(jobs)[k - 1] = x
    BY <1>1, <1>2, <1>4, <2>1
  <2>3. QED
    BY <2>2
<1>5. ASSUME NEW i \in 1 .. Len(Tail(jobs))
      PROVE  Tail(jobs)[i] \in Queued /\ Tail(jobs)[i] # Head(jobs)
  <2>1. i + 1 \in 1 .. Len(jobs) /\ 1 \in 1 .. Len(jobs) /\ i + 1 # 1
    BY <1>1, <1>2
  <2>2. QED
    BY <1>2, <2>1 DEF Queued
<1>6. \A i, k \in 1 .. Len(Tail(jobs)) : Tail(jobs)[i] = Tail(jobs)[k] => i = k
  BY <1>1, <1>2
<1>7. {Tail(jobs)[i] : i \in 1 .. Len(Tail(jobs))} = Queued \ {Head(jobs)}
  BY <1>4, <1>5
<1>8. QED
  BY <1>2, <1>3, <1>6, <1>7

-----------------------------------------------------------------------------
(* The invariant holds of Init and of every step. *)

LEMMA InitPoolInv == PoolInit => PoolInv
<1>1. SUFFICES ASSUME PoolInit PROVE PoolInv
  OBVIOUS
<1>2. jobs \in Seq(Job) /\ Len(jobs) = 0
  BY <1>1, EmptySeq DEF PoolInit
<1>3. PoolTypeOK
  BY <1>1, <1>2 DEF PoolInit, PoolTypeOK, Phase
<1>4. EachJobOnce
  BY <1>1, <1>2 DEF PoolInit, EachJobOnce, Queued, Running
<1>5. LeavesLast /\ QueuedJobHasWorker /\ NobodySleepsThrough
  BY <1>1 DEF PoolInit, LeavesLast, QueuedJobHasWorker, NobodySleepsThrough
<1>6. QED
  BY <1>3, <1>4, <1>5 DEF PoolInv

LEMMA EnqueueKeeps ==
  ASSUME NEW j \in Job, PoolInv, Enqueue(j)
  PROVE  PoolInv'
<1>1. /\ PoolTypeOK /\ EachJobOnce /\ LeavesLast
      /\ QueuedJobHasWorker /\ NobodySleepsThrough
  BY DEF PoolInv
<1>2. /\ jobs' \in Seq(Job) /\ jobs' # <<>>
      /\ Queued' = Queued \cup {j}
      /\ j \notin Queued
      /\ \A i, k \in 1 .. Len(jobs') : jobs'[i] = jobs'[k] => i = k
  BY <1>1, QueuedAppend DEF Enqueue, EachJobOnce, Queued
<1>3. /\ phase' \in [Thread -> Phase]
      /\ \A w \in Thread : phase'[w] \in {"running", "exited"} \/ phase[w] \in {"running", "exited"}
                              => phase'[w] = phase[w]
      /\ \E w \in Thread : phase'[w] # "waiting"
  BY <1>1, PoolAssumption DEF Enqueue, NotifyOne, PoolTypeOK, Phase
<1>4. PoolTypeOK'
  BY <1>1, <1>2, <1>3 DEF Enqueue, PoolTypeOK
<1>5. Running' = Running /\ fn' = fn /\ ran' = ran /\ given' = given \cup {j} /\ j \notin given
  BY <1>3 DEF Enqueue, Running
<1>6. EachJobOnce'
  BY <1>1, <1>2, <1>5 DEF EachJobOnce
<1>7. \A w \in Thread : phase[w] # "exited"
  BY <1>1 DEF LeavesLast, Enqueue
<1>8. LeavesLast'
  BY <1>1, <1>3, <1>7 DEF LeavesLast, Enqueue
<1>9. \E w \in Thread : phase'[w] \in {"ready", "running"}
  BY <1>3, <1>7 DEF Phase
<1>10. QueuedJobHasWorker' /\ NobodySleepsThrough'
  BY <1>9 DEF QueuedJobHasWorker, NobodySleepsThrough, Enqueue
<1>11. QED
  BY <1>4, <1>6, <1>8, <1>10 DEF PoolInv

\* The steps of the owner after its jobs are enqueued.
LEMMA OwnerKeeps ==
  ASSUME PoolInv, ShutdownPool \/ NotifyAll \/ Join \/ Destroy
  PROVE  PoolInv'
<1>1. /\ PoolTypeOK /\ EachJobOnce /\ LeavesLast
      /\ QueuedJobHasWorker /\ NobodySleepsThrough
  BY DEF PoolInv
<1>2. /\ UNCHANGED <<jobs, fn, given, ran>>
      /\ phase' \in [Thread -> Phase]
      /\ \A w \in Thread : phase'[w] \in {"running", "exited"} \/ phase[w] \in {"running", "exited", "ready"}
                              => phase'[w] = phase[w]
  BY <1>1 DEF ShutdownPool, NotifyAll, Join, Destroy, PoolTypeOK, Phase
<1>3. PoolTypeOK'
  BY <1>1, <1>2 DEF ShutdownPool, NotifyAll, Join, Destroy, PoolTypeOK
<1>4. Running' = Running /\ Queued' = Queued
  BY <1>2 DEF Running, Queued
<1>5. EachJobOnce'
  BY <1>1, <1>2, <1>4 DEF EachJobOnce
<1>6. LeavesLast'
  BY <1>1, <1>2 DEF ShutdownPool, NotifyAll, Join, Destroy, LeavesLast
<1>7. QueuedJobHasWorker'
  BY <1>1, <1>2 DEF QueuedJobHasWorker
<1>8. NobodySleepsThrough'
  BY <1>1 DEF ShutdownPool, NotifyAll, Join, Destroy, NobodySleepsThrough
<1>9. QED
  BY <1>3, <1>5, <1>6, <1>7, <1>8 DEF PoolInv

LEMMA TakeKeeps ==
  ASSUME NEW w \in Thread, PoolInv, Take(w)
  PROVE  PoolInv'
<1>1. /\ PoolTypeOK /\ EachJobOnce /\ LeavesLast
      /\ QueuedJobHasWorker /\ NobodySleepsThrough
  BY DEF PoolInv
<1>2. /\ jobs # <<>> /\ phase[w] = "ready"
      /\ jobs' = Tail(jobs)
      /\ fn' = [fn EXCEPT ![w] = Head(jobs)]
      /\ phase' = [phase EXCEPT ![w] = "running"]
      /\ UNCHANGED <<shutdown, owner, given, ran>>
  BY DEF Take, Looks
<1>3. \A i, k \in 1 .. Len(jobs) : jobs[i] = jobs[k] => i = k
  BY <1>1 DEF EachJobOnce
<1>4. /\ jobs' \in Seq(Job)
      /\ Head(jobs) \in Job /\ Head(jobs) \in Queued
      /\ Queued' = Queued \ {Head(jobs)}
      /\ \A i, k \in 1 .. Len(jobs') : jobs'[i] = jobs'[k] => i = k
  <2>1. /\ Tail(jobs) \in Seq(Job)
        /\ Head(jobs) \in Job /\ Head(jobs) \in Queued
        /\ {Tail(jobs)[i] : i \in 1 .. Len(Tail(jobs))} = Queued \ {Head(jobs)}
        /\ \A i, k \in 1 .. Len(Tail(jobs)) : Tail(jobs)[i] = Tail(jobs)[k] => i = k
    BY <1>1, <1>2, <1>3, QueuedTail
  <2>2. Queued' = {Tail(jobs)[i] : i \in 1 .. Len(Tail(jobs))}
    BY <1>2 DEF Queued
  <2>3. QED
    BY <1>2, <2>1, <2>2
<1>5. PoolTypeOK'
  BY <1>1, <1>2, <1>4 DEF PoolTypeOK, Phase
<1>6. /\ Running' = Running \cup {w} /\ w \notin Running
      /\ fn'[w] = Head(jobs)
      /\ \A v \in Running : fn'[v] = fn[v]
  BY <1>1, <1>2 DEF Running, PoolTypeOK
<1>7. EachJobOnce'
  <2>1. \A v, u \in Running' : fn'[v] = fn'[u] => v = u
    BY <1>1, <1>4, <1>6 DEF EachJobOnce
  <2>2. \A v \in Running' : fn'[v] \notin Queued' \cup ran'
    BY <1>1, <1>2, <1>4, <1>6 DEF EachJobOnce
  <2>3. given' = Queued' \cup ran' \cup {fn'[v] : v \in Running'}
    BY <1>1, <1>2, <1>4, <1>6 DEF EachJobOnce
  <2>4. QED
    BY <1>1, <1>2, <1>4, <2>1, <2>2, <2>3 DEF EachJobOnce
<1>8. LeavesLast'
  BY <1>1, <1>2 DEF LeavesLast, PoolTypeOK
<1>9. QueuedJobHasWorker'
  BY <1>1, <1>2 DEF QueuedJobHasWorker, PoolTypeOK
<1>10. NobodySleepsThrough'
  BY <1>1, <1>2 DEF NobodySleepsThrough, PoolTypeOK
<1>11. QED
  BY <1>5, <1>7, <1>8, <1>9, <1>10 DEF PoolInv

LEMMA ReturnKeeps ==
  ASSUME NEW w \in Thread, PoolInv, Return(w)
  PROVE  PoolInv'
<1>1. /\ PoolTypeOK /\ EachJobOnce /\ LeavesLast
      /\ QueuedJobHasWorker /\ NobodySleepsThrough
  BY DEF PoolInv
<1>2. /\ phase[w] = "running"
      /\ ran' = ran \cup {fn[w]}
      /\ phase' = [phase EXCEPT ![w] = "ready"]
      /\ UNCHANGED <<jobs, shutdown, fn, owner, given>>
  BY DEF Return
<1>3. /\ Running' = Running \ {w} /\ w \in Running
      /\ Queued' = Queued
  BY <1>1, <1>2 DEF Running, Queued, PoolTypeOK
<1>4. PoolTypeOK'
  BY <1>1, <1>2, <1>3 DEF PoolTypeOK, Phase, EachJobOnce
<1>5. EachJobOnce'
  BY <1>1, <1>2, <1>3 DEF EachJobOnce
<1>6. LeavesLast'
  BY <1>1, <1>2 DEF LeavesLast, PoolTypeOK
<1>7. QueuedJobHasWorker' /\ NobodySleepsThrough'
  BY <1>1, <1>2 DEF QueuedJobHasWorker, NobodySleepsThrough, PoolTypeOK
<1>8. QED
  BY <1>4, <1>5, <1>6, <1>7 DEF PoolInv

\* A worker goes to sleep, leaves the loop, or wakes up for no reason.
LEMMA LoopKeeps ==
  ASSUME NEW w \in Thread, PoolInv, Wait(w) \/ Exit(w) \/ Spurious(w)
  PROVE  PoolInv'
<1>1. /\ PoolTypeOK /\ EachJobOnce /\ LeavesLast
      /\ QueuedJobHasWorker /\ NobodySleepsThrough
  BY DEF PoolInv
<1>2. /\ UNCHANGED <<jobs, shutdown, fn, owner, given, ran>>
      /\ phase[w] \in {"ready", "waiting"}
      /\ \E p \in {"waiting", "exited", "ready"} : phase' = [phase EXCEPT ![w] = p]
  BY DEF Wait, Exit, Spurious, Looks
<1>3. Running' = Running /\ Queued' = Queued
  BY <1>1, <1>2 DEF Running, Queued, PoolTypeOK
<1>4. PoolTypeOK'
  BY <1>1, <1>2 DEF PoolTypeOK, Phase
<1>5. EachJobOnce'
  BY <1>1, <1>2, <1>3 DEF EachJobOnce
<1>6. LeavesLast'
  BY <1>1 DEF LeavesLast, PoolTypeOK, Wait, Exit, Spurious, Looks
<1>7. QueuedJobHasWorker'
  BY <1>1 DEF QueuedJobHasWorker, PoolTypeOK, Wait, Exit, Spurious, Looks
<1>8. NobodySleepsThrough'
  BY <1>1 DEF NobodySleepsThrough, LeavesLast, PoolTypeOK, Wait, Exit, Spurious, Looks
<1>9. QED
  BY <1>4, <1>5, <1>6, <1>7, <1>8 DEF PoolInv

LEMMA StepPoolInv == PoolInv /\ [PoolNext]_poolVars => PoolInv'
<1>1. SUFFICES ASSUME PoolInv, [PoolNext]_poolVars PROVE PoolInv'
  OBVIOUS
<1>2. CASE ShutdownPool \/ NotifyAll \/ Join \/ Destroy
  BY <1>1, <1>2, OwnerKeeps
<1>3. CASE \E j \in Job : Enqueue(j)
  BY <1>1, <1>3, EnqueueKeeps
<1>4. CASE \E w \in Thread : Work(w) \/ Spurious(w)
  BY <1>1, <1>4, TakeKeeps, ReturnKeeps, LoopKeeps DEF Work
<1>5. CASE UNCHANGED poolVars
  BY <1>1, <1>5
     DEF poolVars, PoolInv, PoolTypeOK, EachJobOnce, LeavesLast, QueuedJobHasWorker,
         NobodySleepsThrough, Queued, Running
<1>6. QED
  BY <1>1, <1>2, <1>3, <1>4, <1>5 DEF PoolNext

LEMMA PoolInvariance == PoolSpec => []PoolInv
  BY InitPoolInv, StepPoolInv, PTL DEF PoolSpec

-----------------------------------------------------------------------------
(* The results. *)

\* The pool's variables keep their types (ThreadPool).
THEOREM PoolTypeCorrect == PoolSpec => []PoolTypeOK
  BY PoolInvariance, PTL DEF PoolInv

\* No wakeup is lost: a queued job has a worker on its way (ThreadPool::enqueue).
THEOREM NoLostWakeup == PoolSpec => []QueuedJobHasWorker
  BY PoolInvariance, PTL DEF PoolInv

\* shutdown() leaves nobody asleep (ThreadPool::shutdown).
THEOREM NobodySleeps == PoolSpec => []NobodySleepsThrough
  BY PoolInvariance, PTL DEF PoolInv

\* Every job is queued, run and returned once (ThreadPool::worker).
THEOREM JobsOnce == PoolSpec => []EachJobOnce
  BY PoolInvariance, PTL DEF PoolInv

LEMMA InitRefines == PoolInit => Abstract!Init
  BY DEF PoolInit, Abstract!Init

LEMMA StepRefines ==
  ASSUME PoolInv, [PoolNext]_poolVars
  PROVE  [Abstract!Next]_<<given \ ran, ran, owner = "joined">>
<1>1. /\ PoolTypeOK /\ EachJobOnce /\ LeavesLast
  BY DEF PoolInv
<1>2. ASSUME NEW j \in Job, Enqueue(j)
      PROVE  Abstract!Give(j)
  BY <1>1, <1>2 DEF Enqueue, Abstract!Give, PoolTypeOK
<1>3. ASSUME NEW w \in Thread, Return(w)
      PROVE  Abstract!Finish(fn[w]) /\ fn[w] \in Job
  BY <1>1, <1>3 DEF Return, Abstract!Finish, PoolTypeOK, EachJobOnce, Running
<1>4. ASSUME Join
      PROVE  Abstract!Join
  <2>1. Running = {} /\ jobs = <<>>
    BY <1>1, <1>4, PoolAssumption DEF Join, LeavesLast, Running
  <2>2. Queued = {}
    BY <1>1, <2>1, EmptySeq DEF Queued
  <2>3. given \ ran = {}
    BY <1>1, <2>1, <2>2 DEF EachJobOnce
  <2>4. given' = given /\ ran' = ran /\ (owner' = "joined")
    BY <1>4 DEF Join
  <2>5. QED
    BY <2>3, <2>4 DEF Abstract!Join
<1>5. ASSUME \/ ShutdownPool \/ NotifyAll \/ Destroy
             \/ \E w \in Thread : Take(w) \/ Wait(w) \/ Exit(w) \/ Spurious(w)
             \/ UNCHANGED poolVars
      PROVE  UNCHANGED <<given \ ran, ran, owner = "joined">>
  BY <1>5 DEF ShutdownPool, NotifyAll, Destroy, Take, Wait, Exit, Spurious, poolVars
<1>6. QED
  BY <1>2, <1>3, <1>4, <1>5 DEF PoolNext, Work, Abstract!Next

\* The pool is a fork and join of its jobs: shutdown() returns after the last one
\* (ThreadPool, ForkJoin).
THEOREM PoolRefines == PoolSpec => ForkJoinSpec
<1>1. PoolSpec => []PoolInv
  BY PoolInvariance
<1>2. PoolInit => Abstract!Init
  BY InitRefines
<1>3. PoolInv /\ [PoolNext]_poolVars => [Abstract!Next]_<<given \ ran, ran, owner = "joined">>
  BY StepRefines
<1>4. QED
  BY <1>1, <1>2, <1>3, PTL DEF PoolSpec, ForkJoinSpec, Abstract!Spec
=============================================================================
