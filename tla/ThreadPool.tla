----------------------------- MODULE ThreadPool -----------------------------
(***************************************************************************)
(* httplib::ThreadPool, src/hpplib/httplib.hpp, and what src/core does     *)
(* with one: files are downloaded, verified and patched by a pool each,    *)
(* and the connections of a distribution are served by one.                *)
(*                                                                         *)
(* The owner enqueues its jobs and calls shutdown(), which joins the       *)
(* threads.  When it sees a cancellation or a failure after it enqueued,   *)
(* it returns without shutdown(): the destructor is defaulted, and to      *)
(* destroy a joinable std::thread ends the process.  A step under the      *)
(* pool's mutex is one action; waiting on the condition variable may end   *)
(* for no reason.                                                          *)
(***************************************************************************)
EXTENDS Sequences, FiniteSets, Naturals

CONSTANTS
  Thread,  \* the pool's threads, at least one
  Job      \* the functions enqueued, each one once

ASSUME PoolAssumption == Thread # {}

Phase == {"ready", "waiting", "running", "exited"}

VARIABLES
  jobs,      \* jobs_
  shutdown,  \* shutdown_
  phase,     \* where each worker is in its loop
  fn,        \* the job a running worker has taken
  owner,     \* what the owner does
  given,     \* history: the jobs enqueued
  ran        \* history: the jobs that have returned

poolVars == <<jobs, shutdown, phase, fn, owner, given, ran>>

PoolInit ==
  /\ jobs = <<>>
  /\ shutdown = FALSE
  /\ phase = [w \in Thread |-> "ready"]
  /\ fn \in [Thread -> Job]
  /\ owner = "enqueue"
  /\ given = {}
  /\ ran = {}

-----------------------------------------------------------------------------
(* The owner. *)

\* notify_one: some worker that waits looks again, if any does.  Mutant: nobody is
\* told.
NotifyNone == phase' = phase
NotifyOne ==
  \/ \E w \in Thread : phase[w] = "waiting" /\ phase' = [phase EXCEPT ![w] = "ready"]
  \/ (\A w \in Thread : phase[w] # "waiting") /\ phase' = phase

Enqueue(j) ==
  /\ owner = "enqueue"
  /\ j \notin given
  /\ jobs' = Append(jobs, j)
  /\ given' = given \cup {j}
  /\ NotifyOne
  /\ UNCHANGED <<shutdown, fn, owner, ran>>

\* shutdown(): the flag is set under the mutex, notify_all comes after it.
ShutdownPool ==
  /\ owner = "enqueue"
  /\ shutdown' = TRUE
  /\ owner' = "notify"
  /\ UNCHANGED <<jobs, phase, fn, given, ran>>

NotifyAll ==
  /\ owner = "notify"
  /\ phase' = [w \in Thread |-> IF phase[w] = "waiting" THEN "ready" ELSE phase[w]]
  /\ owner' = "join"
  /\ UNCHANGED <<jobs, shutdown, fn, given, ran>>

Join ==
  /\ owner = "join"
  /\ \A w \in Thread : phase[w] = "exited"
  /\ owner' = "joined"
  /\ UNCHANGED <<jobs, shutdown, phase, fn, given, ran>>

\* The owner returns early: the pool is destroyed with its threads running.
Destroy ==
  /\ owner = "enqueue"
  /\ owner' = "terminated"
  /\ UNCHANGED <<jobs, shutdown, phase, fn, given, ran>>

-----------------------------------------------------------------------------
(* The workers. *)

\* A worker holds the mutex and looks at the queue.
Looks(w) == owner # "terminated" /\ phase[w] = "ready"

Take(w) ==
  /\ Looks(w)
  /\ jobs # <<>>
  /\ fn' = [fn EXCEPT ![w] = Head(jobs)]
  /\ jobs' = Tail(jobs)
  /\ phase' = [phase EXCEPT ![w] = "running"]
  /\ UNCHANGED <<shutdown, owner, given, ran>>

\* Mutant: the predicate of the wait forgets shutdown_.
WaitAnyway(w) ==
  /\ Looks(w)
  /\ jobs = <<>>
  /\ phase' = [phase EXCEPT ![w] = "waiting"]
  /\ UNCHANGED <<jobs, shutdown, fn, owner, given, ran>>
Wait(w) ==
  /\ Looks(w)
  /\ jobs = <<>> /\ ~shutdown
  /\ phase' = [phase EXCEPT ![w] = "waiting"]
  /\ UNCHANGED <<jobs, shutdown, fn, owner, given, ran>>

\* Mutant: a shutdown does not wait for the queue to be empty.
ExitAtOnce(w) ==
  /\ Looks(w)
  /\ shutdown
  /\ phase' = [phase EXCEPT ![w] = "exited"]
  /\ UNCHANGED <<jobs, shutdown, fn, owner, given, ran>>
Exit(w) ==
  /\ Looks(w)
  /\ jobs = <<>> /\ shutdown
  /\ phase' = [phase EXCEPT ![w] = "exited"]
  /\ UNCHANGED <<jobs, shutdown, fn, owner, given, ran>>

\* The job returns, and the worker goes round.
Return(w) ==
  /\ owner # "terminated"
  /\ phase[w] = "running"
  /\ ran' = ran \cup {fn[w]}
  /\ phase' = [phase EXCEPT ![w] = "ready"]
  /\ UNCHANGED <<jobs, shutdown, fn, owner, given>>

Spurious(w) ==
  /\ owner # "terminated"
  /\ phase[w] = "waiting"
  /\ phase' = [phase EXCEPT ![w] = "ready"]
  /\ UNCHANGED <<jobs, shutdown, fn, owner, given, ran>>

Work(w) == Take(w) \/ Wait(w) \/ Exit(w) \/ Return(w)

PoolNext ==
  \/ ShutdownPool \/ NotifyAll \/ Join \/ Destroy
  \/ \E j \in Job : Enqueue(j)
  \/ \E w \in Thread : Work(w) \/ Spurious(w)

PoolSpec == PoolInit /\ [][PoolNext]_poolVars

\* The threads are scheduled and the jobs return; the owner goes on once it has
\* called shutdown().
PoolFairSpec ==
  /\ PoolSpec
  /\ WF_poolVars(NotifyAll) /\ WF_poolVars(Join)
  /\ \A w \in Thread : WF_poolVars(Work(w))

-----------------------------------------------------------------------------
(* Properties. *)

Queued == {jobs[i] : i \in 1 .. Len(jobs)}
Running == {w \in Thread : phase[w] = "running"}

PoolTypeOK ==
  /\ jobs \in Seq(Job)
  /\ shutdown \in BOOLEAN
  /\ phase \in [Thread -> Phase]
  /\ fn \in [Thread -> Job]
  /\ owner \in {"enqueue", "notify", "join", "joined", "terminated"}
  /\ given \subseteq Job
  /\ ran \subseteq given

\* No wakeup is lost (ThreadPool::enqueue, worker): while a job is queued some
\* worker is on its way to the queue.
QueuedJobHasWorker ==
  jobs # <<>> => \E w \in Thread : phase[w] \in {"ready", "running"}

\* shutdown() wakes everybody (ThreadPool::shutdown): nobody sleeps while the owner
\* joins.
NobodySleepsThrough ==
  owner \in {"join", "joined"} => \A w \in Thread : phase[w] # "waiting"

\* Every job enqueued is in one place (ThreadPool::worker): queued once, run by one
\* worker, or returned.
EachJobOnce ==
  /\ \A i, k \in 1 .. Len(jobs) : jobs[i] = jobs[k] => i = k
  /\ \A v, w \in Running : fn[v] = fn[w] => v = w
  /\ \A w \in Running : fn[w] \notin Queued \cup ran
  /\ Queued \cap ran = {}
  /\ given = Queued \cup ran \cup {fn[w] : w \in Running}

\* The pool does what its callers rely on (ForkJoin).
Abstract ==
  INSTANCE ForkJoin WITH open <- given \ ran, done <- ran, joined <- owner = "joined"
ForkJoinSpec == Abstract!Spec

\* shutdown() returns, when the jobs do.
ShutdownReturns == owner = "notify" ~> owner = "joined"
=============================================================================
