---------------------------- MODULE HttpDownload ----------------------------
(***************************************************************************)
(* The resumable download, src/core/download_http.cpp, and the loop around *)
(* it in Client::download (client.cpp); the master's pull() is the same    *)
(* function, called once, from a web server.                               *)
(*                                                                         *)
(* A thread pool (ThreadPool) fetches each file with a connection of its   *)
(* own.  Beside the data, which is appended to, a file `.cache' holds how  *)
(* many bytes were fetched: the breakpoint from which a later call goes    *)
(* on.  The data is flushed before the breakpoint, and the process may die *)
(* in between; the breakpoint is truncated when the file is opened again.  *)
(*                                                                         *)
(* A byte is its position in the file.  The other end of the connections   *)
(* is the master's file server: HttpTransfer joins the two, has the        *)
(* assumption on the constants, and the run.  Left out: speeds and         *)
(* transfers, the sizes that pull() compares, unusable urls and files that *)
(* cannot be opened (a call that fails like Fails).                        *)
(***************************************************************************)
EXTENDS Integers, Sequences, FiniteSets

CONSTANTS
  File,         \* the files of the upgrade
  Url,          \* the url of a file
  Size,         \* file.size
  NoFile,       \* what is not on the disk
  ThreadCount,  \* CPPHTTPLIB_THREAD_POOL_COUNT
  RETRY_TIMES,  \* how often the caller tries
  MaxCalls      \* a bound: the calls

NoRange == -1

\* The two ends of a connection share what was asked, what was promised, and the
\* bytes on their way; "over" when the server has closed its end, "lost" when
\* nothing more comes for another reason.
Connection ==
  [ state : {"closed", "sent", "answered", "over", "lost"},
    range : Nat \cup {NoRange}, total : Nat, bytes : Seq(Nat) ]
Closed == [state |-> "closed", range |-> NoRange, total |-> 0, bytes |-> <<>>]

\* What a job keeps of its file: the Helper and what it has read.
Fetch ==
  [ pc : {"queued", "receive", "flush", "progress", "done"}, offset : Nat, current : Nat,
    got : Nat, finished : BOOLEAN, exists : BOOLEAN ]
Queued ==
  [ pc |-> "queued", offset |-> 0, current |-> 0, got |-> 0, finished |-> FALSE,
    exists |-> FALSE ]

VARIABLES
  order,     \* (fixed) how the call lists the files
  disk,      \* the data files
  cache,     \* the numbers in the `.cache' files; an empty one reads as 0
  conn,      \* the connections
  job,       \* the jobs
  call,      \* where the caller is
  status,    \* statusHelper.status.state
  urls,      \* downloadUrls
  times,     \* the failed tries of this call
  stop,      \* what breakFunction() says
  outcome,   \* the result posted: "none", "done", "error" or "quiet"
  counts,    \* how often calls, stops, kills and breaks happened
  torn       \* history: a breakpoint and its data did not agree

Listed == {order[i] : i \in DOMAIN order}

fileVars == <<disk, cache>>
callVars == <<call, urls, times, stop, outcome>>
vars == <<fileVars, conn, job, callVars, status, counts, torn>>

-----------------------------------------------------------------------------
(* StatusHelper (core/helper.h). *)

checkDone == status = "FAILED" \/ stop
Checked == IF status = "SUCCEED" /\ stop THEN "CANCELED" ELSE status

-----------------------------------------------------------------------------
(* The call. *)

Threads == IF Len(order) > ThreadCount THEN ThreadCount ELSE Len(order)

Repeats == \E i, k \in DOMAIN order : i # k /\ Url[order[i]] = Url[order[k]]

\* httpDownloadCommon up to the enqueued jobs, with its early returns.
Enqueue(stopped) ==
  /\ job' = [f \in File |-> Queued]
  /\ conn' = [f \in File |-> Closed]
  /\ urls' = {Url[f] : f \in Listed}
  /\ IF order = <<>> \/ Repeats
     THEN call' = "returned" /\ status' = "FAILED"
     ELSE IF stopped
     THEN call' = "returned" /\ status' = "CANCELED"
     ELSE call' = "enqueued" /\ status' = "SUCCEED"
  /\ UNCHANGED <<fileVars, torn>>

\* A new call is for a worker that was just started: nobody wants it to stop yet.
Call ==
  /\ call = "idle" /\ counts.calls < MaxCalls
  /\ stop' = FALSE /\ times' = 0 /\ outcome' = "none"
  /\ Enqueue(FALSE)
  /\ counts' = [counts EXCEPT !.calls = @ + 1]

Retry ==
  /\ call = "returned" /\ status = "FAILED" /\ times + 1 < RETRY_TIMES
  /\ times' = times + 1
  /\ Enqueue(stop)
  /\ UNCHANGED <<stop, outcome, counts>>

\* After the jobs are enqueued: with a reason to stop the pool is destroyed with its
\* threads running, which ends the process.
Shutdown ==
  /\ call = "enqueued" /\ ~checkDone
  /\ call' = "joining"
  /\ UNCHANGED <<fileVars, conn, job, urls, times, stop, outcome, status, counts, torn>>

\* The process dies; what is on the disk stays, and so may a later call.
Dies ==
  /\ call' = "idle" /\ stop' = FALSE /\ times' = 0 /\ outcome' = "none"
  /\ urls' = {} /\ status' = "SUCCEED"
  /\ job' = [f \in File |-> Queued] /\ conn' = [f \in File |-> Closed]
  /\ UNCHANGED <<fileVars, torn>>

Terminate ==
  /\ call = "enqueued" /\ checkDone
  /\ Dies
  /\ UNCHANGED counts

\* The jobs are joined.
Join ==
  /\ call = "joining"
  /\ \A f \in Listed : job[f].pc = "done"
  /\ call' = "returned"
  /\ status' = IF ~checkDone /\ urls # {} THEN "FAILED" ELSE Checked
  /\ UNCHANGED <<fileVars, conn, job, urls, times, stop, outcome, counts, torn>>

\* The caller posts the result.
Post ==
  /\ call = "returned"
  /\ status = "FAILED" => times + 1 >= RETRY_TIMES
  /\ outcome' = CASE status = "SUCCEED" -> "done"
                  [] status = "FAILED" -> "error"
                  [] status = "CANCELED" -> "quiet"
  /\ call' = "idle"
  /\ UNCHANGED <<fileVars, conn, job, urls, times, stop, status, counts, torn>>

-----------------------------------------------------------------------------
(* A job. *)

Busy == {f \in Listed : job[f].pc \in {"receive", "flush", "progress"}}

\* A worker of the pool takes the next job.
Next1(f) ==
  /\ call \in {"enqueued", "joining"}
  /\ Cardinality(Busy) < Threads
  /\ \E i \in DOMAIN order :
       /\ order[i] = f /\ job[f].pc = "queued"
       /\ \A k \in 1 .. i - 1 : job[order[k]].pc # "queued"

Opened(f) == IF disk[f] = NoFile THEN <<>> ELSE disk[f]

\* The GET of f is sent.
Get(f, range, fetch) ==
  /\ conn' = [conn EXCEPT ![f] = [Closed EXCEPT !.state = "sent", !.range = range]]
  /\ job' = [job EXCEPT ![f] = fetch]

\* A breakpoint is there: go on from it.  The file of breakpoints is truncated.
Resume(f) ==
  /\ Next1(f) /\ ~checkDone /\ cache[f] # NoFile
  /\ Get(f, cache[f], [Queued EXCEPT !.pc = "receive", !.offset = cache[f],
                                     !.current = cache[f]])
  /\ disk' = [disk EXCEPT ![f] = Opened(f)]
  /\ cache' = [cache EXCEPT ![f] = 0]
  /\ torn' = (torn \/ Len(Opened(f)) # cache[f])
  /\ UNCHANGED <<callVars, status, counts>>

\* No breakpoint: a file of the right size is taken for the file, but asked for once
\* more; any other is removed.
Exists(f) == disk[f] # NoFile /\ Len(disk[f]) = Size[f]
\* Mutant: what is there is kept.
RecreatedKeeping(f) == [disk EXCEPT ![f] = Opened(f)]
Recreated(f) == [disk EXCEPT ![f] = <<>>]

Open(f) ==
  /\ Next1(f) /\ ~checkDone /\ cache[f] = NoFile
  /\ \/ /\ Exists(f)
        /\ Get(f, Size[f], [Queued EXCEPT !.pc = "receive", !.finished = TRUE,
                                          !.exists = TRUE])
        /\ disk' = disk
        /\ urls' = urls \ {Url[f]}
     \/ /\ ~Exists(f)
        /\ Get(f, NoRange, [Queued EXCEPT !.pc = "receive"])
        /\ disk' = Recreated(f)
        /\ urls' = urls
  /\ cache' = [cache EXCEPT ![f] = 0]
  /\ UNCHANGED <<call, times, stop, outcome, status, counts, torn>>

\* The job is over; its connection is closed.
Leave(f) ==
  /\ job' = [job EXCEPT ![f].pc = "done"]
  /\ conn' = [conn EXCEPT ![f] = Closed]

\* A job that sees a reason to stop, before it opened anything or in the receiver:
\* the breakpoint stays.
Quit(f) ==
  /\ \/ Next1(f)
     \/ job[f].pc = "receive" /\ conn[f].bytes # <<>>
  /\ checkDone
  /\ status' = Checked
  /\ Leave(f)
  /\ UNCHANGED <<fileVars, callVars, counts, torn>>

\* The receiver: a piece of the file is written and flushed, and counted in memory.
Write(f) ==
  /\ job[f].pc = "receive" /\ conn[f].bytes # <<>> /\ ~checkDone
  /\ disk' = [disk EXCEPT ![f] = Append(@, Head(conn[f].bytes))]
  /\ conn' = [conn EXCEPT ![f].bytes = Tail(@)]
  /\ job' = [job EXCEPT ![f].pc = "flush", ![f].current = @ + 1, ![f].got = @ + 1]
  /\ UNCHANGED <<cache, callVars, status, counts, torn>>

\* res is valid, whatever its status code says: the breakpoint is removed, and the
\* url is done with when all that was promised has come.
Removed(f) == [cache EXCEPT ![f] = NoFile]
Completed(f, finished) ==
  /\ cache' = Removed(f)
  /\ urls' = IF finished THEN urls \ {Url[f]} ELSE urls
  /\ status' = IF finished THEN status ELSE Checked
  /\ Leave(f)

\* The breakpoint is flushed.  Mutant: it counts the next piece already.
FlushedAhead(f) == [cache EXCEPT ![f] = job[f].current + 1]
Flushed(f) == [cache EXCEPT ![f] = job[f].current]

Flush(f) ==
  /\ job[f].pc = "flush"
  /\ cache' = Flushed(f)
  /\ job' = [job EXCEPT ![f].pc = "progress"]
  /\ UNCHANGED <<disk, conn, callVars, status, counts, torn>>

\* The progress function: all that was promised has come, there is more, or there is
\* a reason to stop, with which the breakpoint stays.
Note(f) ==
  /\ job[f].pc = "progress"
  /\ LET all == job[f].got >= conn[f].total
     IN \/ /\ ~checkDone /\ all
           /\ Completed(f, TRUE)
        \/ /\ ~checkDone /\ ~all
           /\ job' = [job EXCEPT ![f].pc = "receive"]
           /\ UNCHANGED <<cache, conn, urls, status>>
        \/ /\ checkDone
           /\ status' = Checked
           /\ Leave(f)
           /\ UNCHANGED <<cache, urls>>
  /\ UNCHANGED <<disk, call, times, stop, outcome, counts, torn>>

\* An answer without content: the progress is not called.
CompleteEmpty(f) ==
  /\ job[f].pc = "receive" /\ conn[f].state \in {"answered", "over"}
  /\ conn[f].total = 0
  /\ Completed(f, job[f].finished)
  /\ UNCHANGED <<disk, call, times, stop, outcome, counts, torn>>

\* The connection fails before all that was promised has come: the breakpoint is
\* removed with it, unless somebody cancelled.
Fails(f) ==
  /\ job[f].pc = "receive"
  /\ cache' = IF status = "CANCELED" THEN cache ELSE Removed(f)
  /\ status' = IF status = "CANCELED" \/ job[f].exists THEN status ELSE "FAILED"
  /\ Leave(f)
  /\ UNCHANGED <<disk, callVars, counts, torn>>

\* Mutant: nobody waits for a timeout.
BrokenClosed(f) == conn[f].bytes = <<>> /\ conn[f].state = "over"
                   /\ job[f].got < conn[f].total /\ Fails(f)
Broken(f) ==
  /\ conn[f].bytes = <<>>
  /\ \/ conn[f].state = "lost"
     \/ conn[f].state = "over" /\ job[f].got < conn[f].total
  /\ Fails(f)

JobStep(f) ==
  \/ Resume(f) \/ Open(f) \/ Quit(f) \/ Write(f) \/ Flush(f) \/ Note(f)
  \/ CompleteEmpty(f) \/ Broken(f)

CallStep == Retry \/ Shutdown \/ Terminate \/ Join \/ Post

-----------------------------------------------------------------------------
(* What happens to the call. *)

Stop ==
  /\ call # "idle" /\ ~stop
  /\ stop' = TRUE
  /\ counts' = [counts EXCEPT !.stops = @ + 1]
  /\ UNCHANGED <<fileVars, conn, job, call, urls, times, outcome, status, torn>>

Kill ==
  /\ call # "idle"
  /\ Dies
  /\ counts' = [counts EXCEPT !.kills = @ + 1]

\* A connection breaks, or nothing comes until the timeout.
Break(f) ==
  /\ conn[f].state \notin {"closed", "lost"}
  /\ conn' = [conn EXCEPT ![f].state = "lost", ![f].bytes = <<>>]
  /\ counts' = [counts EXCEPT !.breaks = @ + 1]
  /\ UNCHANGED <<fileVars, job, callVars, status, torn>>

Init ==
  /\ disk = [f \in File |-> NoFile]
  /\ cache = [f \in File |-> NoFile]
  /\ conn = [f \in File |-> Closed]
  /\ job = [f \in File |-> Queued]
  /\ call = "idle" /\ status = "SUCCEED" /\ urls = {} /\ times = 0
  /\ stop = FALSE /\ outcome = "none"
  /\ counts = [calls |-> 0, stops |-> 0, kills |-> 0, breaks |-> 0]
  /\ torn = FALSE

-----------------------------------------------------------------------------
(* Properties. *)

TypeOK ==
  /\ disk \in [File -> {NoFile} \cup Seq(Nat)]
  /\ cache \in [File -> {NoFile} \cup Nat]
  /\ conn \in [File -> Connection]
  /\ job \in [File -> Fetch]
  /\ call \in {"idle", "enqueued", "joining", "returned"}
  /\ status \in {"SUCCEED", "FAILED", "CANCELED"}
  /\ urls \subseteq {Url[f] : f \in Listed}
  /\ times \in Nat /\ stop \in BOOLEAN
  /\ outcome \in {"none", "done", "error", "quiet"}
  /\ torn \in BOOLEAN

Whole(f) == disk[f] = [i \in 1 .. Size[f] |-> i]

\* What a call that succeeded leaves is the file, from the first byte to the last.
ResumedIsWhole == outcome = "done" => \A f \in Listed : Whole(f)

\* The same unless a breakpoint did not agree with its data when it was used: nothing
\* else that breaks, cancels or kills a call leaves a wrong file.
WholeUnlessTorn == ~torn => ResumedIsWhole

\* The data is never behind the breakpoint, at whatever moment the process dies: a
\* later call leaves no hole (content receiver: flush of wfile, then of wCachefile).
NeverBehind ==
  \A f \in File : cache[f] # NoFile => disk[f] # NoFile /\ Len(disk[f]) >= cache[f]

\* A call comes to its end, or the process does (threadPool.shutdown).
CallEnds == []<>(call = "idle")
=============================================================================
