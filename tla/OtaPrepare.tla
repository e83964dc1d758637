----------------------------- MODULE OtaPrepare -----------------------------
(***************************************************************************)
(* What a client does with a package between its download and its          *)
(* deployment: Core::verify (verify_openssl.cpp, utils/verify.cpp) and     *)
(* Core::patch (patch_bsdiff.cpp, utils/dispatch.cpp), the workers that    *)
(* call them and the handlers of their results (client.cpp).               *)
(*                                                                         *)
(* Both give one job per file to a thread pool (ForkJoin).  The files are  *)
(* verified as they came, the patches among them applied, the files        *)
(* verified once more, and handed over.  The download is one step that     *)
(* leaves the files in any shape, HttpDownload has the rest; OtaClient has *)
(* the client's other states and messages.  A client whose process ended   *)
(* is WR_OFFLINE.  Left out: progress and checksums of files that are open *)
(* while they are read.                                                    *)
(***************************************************************************)
EXTENDS Integers, Sequences, FiniteSets

CONSTANTS
  Upgrade,   \* the ids of upgrades
  NoUpgrade,
  File,      \* the files of the packages for this client
  Files,     \* those of each upgrade
  Patch,     \* the ones with the suffix "patch"
  Summed,    \* the ones that come with a checksum
  Tool,      \* the program that applies a patch can be started
  MaxSends,  \* bounds: the control messages,
  MaxQueue   \* and those that wait at a time

ASSUME PrepareAssumption ==
  /\ NoUpgrade \notin Upgrade
  /\ Files \in [Upgrade -> SUBSET File \ {{}}]
  /\ Patch \subseteq File /\ Summed \subseteq File
  /\ Tool \in BOOLEAN
  /\ {MaxSends, MaxQueue} \subseteq Nat

\* A file as it came; the file of the name that a patch asks for, the first of
\* that name anywhere under the download directory; and what a patch has made.
Shape == {"intact", "damaged", "missing"}
Found == {"right", "other", "none"}
Made == {"none", "right", "wrong"}

Control == {"CTL_CANCEL", "CTL_CLEAR", "CTL_DEPLOY"}
Result == {"RES_DOWNLOAD", "RES_VERIFY", "RES_PATCH", "RES_ERROR", "RES_CANCEL_DONE"}
Event == [event : Control \cup Result] \cup [event : {"CTL_DOWNLOAD"}, upgrade : Upgrade]

\* The worker and the call it is in: Client::download, verify or patch.
Worker ==
  [ on : {"none", "download", "verify", "patch"},
    upgrade : Upgrade \cup {NoUpgrade},
    entered : BOOLEAN,                    \* it has not returned at once
    joining : BOOLEAN,                    \* all jobs are given, none is waited for before
    job : [File -> {"queued", "reading", "applied", "pushing", "done"}],
    failed : BOOLEAN,                     \* statusHelper.status.state = FAILED
    verifyUrls : SUBSET File,
    newFiles : SUBSET Patch,              \* targetNewFiles
    seen : [File -> SUBSET Patch],        \* what a push_back has read of it
    resumed : BOOLEAN ]                   \* history: a cancellation was taken back under it

NoWorker ==
  [ on |-> "none", upgrade |-> NoUpgrade, entered |-> FALSE, joining |-> FALSE,
    job |-> [f \in File |-> "done"], failed |-> FALSE, verifyUrls |-> {},
    newFiles |-> {}, seen |-> [f \in File |-> {}], resumed |-> FALSE ]

VARIABLES
  state,          \* m_hpr->detail.domain.state
  upgrade,        \* m_hpr->upgrade, with its package for this client
  hasCancelAction,
  patchNewFiles,
  stopping,       \* a handler has cleared hasCancelAction, and is on its way to stopThread
  queue,
  worker,
  stored,         \* the files in the download directory of their upgrade
  base,           \* what is found for a patch
  made,           \* what stands beside it, without the suffix
  sends           \* the control messages so far

client == <<state, upgrade, hasCancelAction, patchNewFiles, stopping>>
disk == <<stored, base, made>>
vars == <<client, queue, worker, disk, sends>>

-----------------------------------------------------------------------------
(* Core::verify and Core::patch. *)

Patches(u) == Files[u] \cap Patch
Jobs(w) ==
  CASE w.on = "verify" -> Files[w.upgrade]
    [] w.on = "patch" -> Patches(w.upgrade)
    [] OTHER -> {}

\* The break function of verify(); that of patch() never reaches its status.
Broken == worker.on = "verify" /\ hasCancelAction
checkDone == worker.failed \/ Broken

Started(on, u) ==
  [ NoWorker EXCEPT
      !.on = on, !.upgrade = u,
      !.job = [f \in File |-> "queued"],
      !.verifyUrls = IF on = "verify" THEN Files[u] ELSE {} ]

At(f, pc) == [worker EXCEPT !.job[f] = pc]
ThrowError(f) == [At(f, "done") EXCEPT !.failed = TRUE]

Posted(e) == queue' = Append(queue, [event |-> e])

\* The call begins: one that was cancelled before returns without a thread.
Enter ==
  /\ worker.on \in {"verify", "patch"} /\ ~worker.entered
  /\ \/ Broken /\ worker' = NoWorker /\ Posted("RES_CANCEL_DONE")
     \/ ~Broken /\ worker' = [worker EXCEPT !.entered = TRUE] /\ UNCHANGED queue
  /\ UNCHANGED <<client, disk, sends>>

\* The caller: the jobs are given, and waited for.
Giving == worker.entered /\ ~worker.joining

Shutdown ==
  /\ Giving
  /\ ~checkDone
  /\ worker' = [worker EXCEPT !.joining = TRUE]
  /\ UNCHANGED <<client, queue, disk, sends>>

\* The process ends.
Dies ==
  /\ state' = "WR_OFFLINE" /\ upgrade' = NoUpgrade
  /\ hasCancelAction' = FALSE /\ patchNewFiles' = {} /\ stopping' = FALSE
  /\ queue' = <<>> /\ worker' = NoWorker

\* A job has failed already, or a cancellation has come: the call returns with the
\* threads of its pool running, and their destructor calls std::terminate.
Terminate ==
  /\ Giving /\ checkDone
  /\ Dies
  /\ UNCHANGED <<disk, sends>>

\* The first half of a verification: the file is there.
Open(f) ==
  /\ worker.on = "verify" /\ worker.entered
  /\ worker.job[f] = "queued"
  /\ worker' = IF checkDone THEN At(f, "done")
               ELSE IF stored[f] = "missing" THEN ThrowError(f) ELSE At(f, "reading")
  /\ UNCHANGED <<client, queue, disk, sends>>

\* The digest of a file is empty when the reading was broken off.
Digest(f) == IF checkDone THEN "broken" ELSE stored[f]
\* Mutant: what a broken-off reading returns is compared.
HashedBlindly(f) == IF Digest(f) # "intact" THEN ThrowError(f) ELSE At(f, "done")
\* Mutant: the checksum is not compared.
HashedKindly(f) ==
  IF checkDone THEN At(f, "done")
  ELSE [At(f, "done") EXCEPT !.verifyUrls = @ \ {f}]
\* The digest is compared, and nobody waits for the file any more.
Hashed(f) ==
  IF checkDone THEN At(f, "done")
  ELSE IF f \notin Summed \/ Digest(f) # "intact" THEN ThrowError(f)
  ELSE [At(f, "done") EXCEPT !.verifyUrls = @ \ {f}]

Hash(f) ==
  /\ worker.on = "verify"
  /\ worker.job[f] = "reading"
  /\ worker' = Hashed(f)
  /\ UNCHANGED <<client, queue, disk, sends>>

\* What dispatch() makes; the program does not see that it is given the wrong file.
Dispatch(f) == CASE ~Tool -> "none" [] Tool /\ base[f] = "right" -> "right" [] OTHER -> "wrong"

\* A patch is applied to what is found for it.
Apply(f) ==
  /\ worker.on = "patch" /\ worker.entered
  /\ worker.job[f] = "queued"
  /\ IF stored[f] = "missing" \/ base[f] = "none" \/ Dispatch(f) = "none"
     THEN worker' = ThrowError(f) /\ UNCHANGED made
     ELSE /\ made' = [made EXCEPT ![f] = Dispatch(f)]
          /\ worker' = At(f, IF checkDone THEN "done" ELSE "applied")
  /\ UNCHANGED <<client, queue, stored, base, sends>>

\* targetNewFiles.push_back() without a lock, by two threads at once: one of the
\* entries may be lost, or the memory of both be freed twice.
PushBegin(f) ==
  /\ worker.on = "patch"
  /\ worker.job[f] = "applied"
  /\ worker' = [At(f, "pushing") EXCEPT !.seen[f] = worker.newFiles]
  /\ UNCHANGED <<client, queue, disk, sends>>

PushEnd(f) ==
  /\ worker.on = "patch"
  /\ worker.job[f] = "pushing"
  /\ worker' = [At(f, "done") EXCEPT !.newFiles = worker.seen[f] \cup {f}]
  /\ UNCHANGED <<client, queue, disk, sends>>

PushCrash ==
  /\ worker.on = "patch"
  /\ \E f, g \in Patches(worker.upgrade) :
       f # g /\ worker.job[f] = "pushing" /\ worker.job[g] = "pushing"
  /\ Dies
  /\ UNCHANGED <<disk, sends>>

\* The download ends, with files of the size that was announced.
Downloaded ==
  /\ worker.on = "download"
  /\ \E s \in [Files[worker.upgrade] -> Shape], b \in [Patches(worker.upgrade) -> Found] :
       /\ stored' = [f \in File |-> IF f \in DOMAIN s THEN s[f] ELSE stored[f]]
       /\ base' = [f \in File |-> IF f \in DOMAIN b THEN b[f] ELSE base[f]]
  /\ worker' = NoWorker
  /\ Posted("RES_DOWNLOAD")
  /\ UNCHANGED <<client, made, sends>>

\* Mutant: the new files are not handed back.
NewFilesKept(w) == patchNewFiles
\* What patch() hands back, on success only.
NewFiles(w) == IF w.on = "patch" /\ ~w.failed THEN w.newFiles ELSE patchNewFiles

\* The jobs are joined: the result of the call is posted by what its status says.
Joined ==
  /\ worker.joining
  /\ \A f \in Jobs(worker) : worker.job[f] = "done"
  /\ worker' = NoWorker
  /\ patchNewFiles' = NewFiles(worker)
  /\ CASE worker.failed \/ (~checkDone /\ worker.verifyUrls # {}) -> Posted("RES_ERROR")
       [] ~worker.failed /\ Broken -> Posted("RES_CANCEL_DONE")
       [] ~checkDone /\ worker.verifyUrls = {} ->
            Posted(IF worker.on = "verify" THEN "RES_VERIFY" ELSE "RES_PATCH")
  /\ UNCHANGED <<state, upgrade, hasCancelAction, stopping, disk, sends>>

WorkerStep ==
  \/ Downloaded \/ Enter \/ Shutdown \/ Joined
  \/ \E f \in Jobs(worker) : Open(f) \/ Hash(f) \/ Apply(f) \/ PushBegin(f) \/ PushEnd(f)

-----------------------------------------------------------------------------
(* The client's handlers. *)

FirstIs(e) == state # "WR_OFFLINE" /\ queue # <<>> /\ Head(queue).event = e

\* The worker when a message has cleared hasCancelAction.
Resumed == [worker EXCEPT !.resumed = @ \/ Broken]

\* These messages clear it first, and ignored or not, the worker goes on meanwhile.
TakeBack ==
  /\ \E e \in {"CTL_DOWNLOAD", "CTL_DEPLOY", "CTL_CLEAR"} : FirstIs(e)
  /\ ~stopping /\ stopping' = TRUE
  /\ hasCancelAction' = FALSE
  /\ worker' = Resumed
  /\ UNCHANGED <<state, upgrade, patchNewFiles, queue, disk, sends>>

\* stopThread(): the worker stops where it is.  One that is giving its jobs to be
\* verified returns too early (StopTerminates).
StopThread == ~(worker.on = "verify" /\ Giving)

CtlDownload ==
  /\ FirstIs("CTL_DOWNLOAD") /\ stopping
  /\ stopping' = FALSE
  /\ upgrade' = Head(queue).upgrade
  /\ queue' = Tail(queue)
  /\ \/ state \in {"WR_DOWNLOAD", "WR_ERROR"} /\ UNCHANGED <<state, worker>>
     \/ /\ state \notin {"WR_DOWNLOAD", "WR_ERROR"} /\ StopThread
        /\ state' = "WR_DOWNLOAD" /\ worker' = Started("download", upgrade')
  /\ UNCHANGED <<hasCancelAction, patchNewFiles, disk, sends>>

\* The files are there: the application is called.
IgnoresDeploy == upgrade = NoUpgrade \/ state \in {"WR_DEPLOY", "WR_ERROR"}

CtlDeploy ==
  /\ FirstIs("CTL_DEPLOY") /\ stopping
  /\ stopping' = FALSE
  /\ \/ IgnoresDeploy /\ queue' = Tail(queue) /\ UNCHANGED <<state, worker>>
     \/ /\ ~IgnoresDeploy /\ StopThread
        /\ state' = "WR_DEPLOY" /\ worker' = NoWorker
        /\ queue' = IF \E f \in Files[upgrade] : stored[f] = "missing"
                    THEN Append(Tail(queue), [event |-> "RES_ERROR"]) ELSE Tail(queue)
  /\ UNCHANGED <<upgrade, hasCancelAction, patchNewFiles, disk, sends>>

\* A client that has nothing to break off answers by itself.
CtlCancel ==
  /\ FirstIs("CTL_CANCEL")
  /\ hasCancelAction' = TRUE
  /\ IF upgrade = NoUpgrade \/ state \in {"WR_CANCEL", "WR_ERROR"}
     THEN UNCHANGED state /\ queue' = Tail(queue)
     ELSE /\ state' = "WR_CANCEL"
          /\ queue' = IF state \in {"WR_IDLE", "WR_WAIT"}
                      THEN Append(Tail(queue), [event |-> "RES_CANCEL_DONE"])
                      ELSE Tail(queue)
  /\ UNCHANGED <<upgrade, patchNewFiles, stopping, worker, disk, sends>>

CtlClear ==
  /\ FirstIs("CTL_CLEAR") /\ stopping /\ StopThread
  /\ stopping' = FALSE
  /\ state' = "WR_IDLE" /\ worker' = NoWorker /\ queue' = Tail(queue)
  /\ UNCHANGED <<upgrade, hasCancelAction, patchNewFiles, disk, sends>>

\* The files of the package are verified, after the download and after the patches
\* were applied.
ResDownload ==
  /\ FirstIs("RES_DOWNLOAD") \/ FirstIs("RES_PATCH")
  /\ StopThread
  /\ state' = "WR_VERIFY" /\ worker' = Started("verify", upgrade)
  /\ queue' = Tail(queue)
  /\ UNCHANGED <<upgrade, hasCancelAction, patchNewFiles, stopping, disk, sends>>

\* There is nothing to patch, or it is patched.
PatchedYet == Patches(upgrade) = {} \/ patchNewFiles # {}

ResVerify ==
  /\ FirstIs("RES_VERIFY")
  /\ patchNewFiles' = {}
  /\ queue' = Tail(queue)
  /\ \/ PatchedYet /\ state' = "WR_WAIT" /\ UNCHANGED worker
     \/ ~PatchedYet /\ StopThread /\ state' = "WR_PATCH" /\ worker' = Started("patch", upgrade)
  /\ UNCHANGED <<upgrade, hasCancelAction, stopping, disk, sends>>

ResError ==
  /\ FirstIs("RES_ERROR")
  /\ state' = "WR_ERROR" /\ queue' = Tail(queue)
  /\ UNCHANGED <<upgrade, hasCancelAction, patchNewFiles, stopping, worker, disk, sends>>

ResCancelDone ==
  /\ FirstIs("RES_CANCEL_DONE")
  /\ state' = "WR_IDLE" /\ queue' = Tail(queue)
  /\ UNCHANGED <<upgrade, hasCancelAction, patchNewFiles, stopping, worker, disk, sends>>

Handle ==
  \/ TakeBack \/ CtlDownload \/ CtlDeploy \/ CtlCancel \/ CtlClear
  \/ ResDownload \/ ResVerify \/ ResError \/ ResCancelDone

\* A handler stops a worker that is giving its jobs to be verified.
StopTerminates ==
  /\ worker.on = "verify" /\ Giving
  /\ \/ stopping /\ FirstIs("CTL_DOWNLOAD") /\ state \notin {"WR_DOWNLOAD", "WR_ERROR"}
     \/ stopping /\ FirstIs("CTL_DEPLOY") /\ ~IgnoresDeploy
     \/ stopping /\ FirstIs("CTL_CLEAR")
     \/ FirstIs("RES_DOWNLOAD") \/ FirstIs("RES_PATCH")
     \/ FirstIs("RES_VERIFY") /\ ~PatchedYet
  /\ Dies
  /\ UNCHANGED <<disk, sends>>

-----------------------------------------------------------------------------
(* The server, and the machine. *)

\* A control message comes; only a client that is idle is told to download, and one
\* that waits to deploy.
Send(e) ==
  /\ state # "WR_OFFLINE"
  /\ sends < MaxSends /\ Len(queue) < MaxQueue
  /\ e.event = "CTL_DOWNLOAD" => state = "WR_IDLE"
  /\ e.event = "CTL_DEPLOY" => state = "WR_WAIT"
  /\ sends' = sends + 1
  /\ queue' = Append(queue, e)
  /\ UNCHANGED <<client, worker, disk>>

Boot ==
  /\ state = "WR_OFFLINE"
  /\ state' = "WR_IDLE"
  /\ UNCHANGED <<upgrade, hasCancelAction, patchNewFiles, stopping, queue, worker, disk, sends>>

Init ==
  /\ state = "WR_IDLE" /\ upgrade = NoUpgrade
  /\ hasCancelAction = FALSE /\ patchNewFiles = {} /\ stopping = FALSE
  /\ queue = <<>> /\ worker = NoWorker
  /\ stored = [f \in File |-> "missing"]
  /\ base = [f \in File |-> "none"]
  /\ made = [f \in File |-> "none"]
  /\ sends = 0

Next ==
  \/ WorkerStep \/ Terminate \/ PushCrash
  \/ Handle \/ StopTerminates
  \/ Boot
  \/ \E u \in Upgrade : Send([event |-> "CTL_DOWNLOAD", upgrade |-> u])
  \/ \E c \in Control : Send([event |-> c])

Spec == Init /\ [][Next]_vars

\* The pool runs its jobs, and the queue is served.
FairSpec == Spec /\ WF_vars(WorkerStep) /\ WF_vars(Terminate) /\ WF_vars(Handle)

-----------------------------------------------------------------------------
(* Properties. *)

TypeOK ==
  /\ state \in {"WR_OFFLINE", "WR_IDLE", "WR_DOWNLOAD", "WR_VERIFY", "WR_PATCH", "WR_WAIT",
                "WR_DEPLOY", "WR_CANCEL", "WR_ERROR"}
  /\ upgrade \in Upgrade \cup {NoUpgrade}
  /\ hasCancelAction \in BOOLEAN /\ stopping \in BOOLEAN
  /\ patchNewFiles \in SUBSET Patch
  /\ queue \in Seq(Event)
  /\ worker \in Worker
  /\ worker.on # "none" <=> worker.upgrade # NoUpgrade
  /\ stored \in [File -> Shape] /\ base \in [File -> Found] /\ made \in [File -> Made]
  /\ sends \in 0 .. MaxSends

Posts(e) == Len(queue') > Len(queue) /\ queue'[Len(queue')] = [event |-> e]

\* A verification that says yes has found every file of the package intact, whatever
\* was broken off, failed or finished in between (Core::verify).
VerifiedIsIntact ==
  [][worker.on = "verify" /\ Joined /\ Posts("RES_VERIFY") =>
       \A f \in Files[worker.upgrade] : stored[f] = "intact" /\ f \in Summed]_vars

\* What is wrong with a file, for the worker.
Cause(f) ==
  \/ worker.on = "verify" /\ (stored[f] # "intact" \/ f \notin Summed)
  \/ worker.on = "patch" /\ (stored[f] = "missing" \/ base[f] = "none" \/ ~Tool)

\* An error is about a file: a worker that is broken off does not take the digest it
\* has not finished for a wrong one, which would fail an upgrade that the user has
\* only cancelled (Core::verify, Core::patch).  A cancellation that is taken back
\* while the worker runs is the exception: the files it has skipped are missed.
ErrorHasCause ==
  [][worker.on \in {"verify", "patch"} /\ Joined /\ Posts("RES_ERROR") =>
       worker.resumed \/ \E f \in Jobs(worker) : Cause(f)]_vars

\* Verifying and patching come to an end: a package is not patched for ever, whatever
\* the threads that share targetNewFiles lose of it (Client::eventChanged RES_VERIFY).
PreparationEnds == []<>(state \notin {"WR_VERIFY", "WR_PATCH"})
=============================================================================
