---------------------------- MODULE HttpTransfer ----------------------------
(***************************************************************************)
(* The pull: a domain's download (HttpDownload) from the master's file     *)
(* server (HttpDistribute), both with all their threads, joined by the     *)
(* connections between them.                                               *)
(*                                                                         *)
(* A file belongs to one domain, whose process fetches it with one         *)
(* connection at a time; the server may still be at an earlier one.        *)
(* link[f] is the server's end of the connection of f, 0 while it has      *)
(* none.                                                                   *)
(***************************************************************************)
EXTENDS Integers, Sequences, FiniteSets

CONSTANTS
  File, Url, Size, NoFile, ThreadCount, RETRY_TIMES,
  Orders,       \* the upgrades that may be pulled, as the calls list their files
  MaxCalls, MaxConns,
  MaxAccidents  \* a bound: with each, so many stops, deaths, broken connections, faults

ASSUME TransferAssumption ==
  /\ IsFiniteSet(File) /\ File # {}
  /\ Orders \subseteq Seq(File)
  /\ Size \in [File -> Nat]
  /\ File \subseteq DOMAIN Url
  /\ NoFile \notin Nat /\ NoFile \notin Seq(Nat)
  /\ ThreadCount \in Nat \ {0}
  /\ MaxAccidents \in [Orders -> Nat]
  /\ {RETRY_TIMES, MaxCalls, MaxConns} \subseteq Nat

VARIABLES
  disk, cache, conn, job, call, status, urls, times, stop, outcome, counts, torn,
  line, worker, handle, running, socket, ready, mstatus, murls, stopper,
  offered, faults,
  order, link

C == INSTANCE HttpDownload
M == INSTANCE HttpDistribute WITH status <- mstatus, urls <- murls

callVars == <<call, urls, times, stop, outcome>>
client == <<disk, cache, conn, job, callVars, status, counts, torn>>
master == <<worker, handle, running, socket, ready, mstatus, murls, stopper, offered,
            faults>>
joint == <<order, link>>
vars == <<client, master, line, joint>>

\* What the client sees of a step of the server at its connection.
Seen(end, old, new) ==
  IF end.state = "lost" THEN end
  ELSE [end EXCEPT
    !.state = CASE new.at = "closed" -> IF new.total = M!Unanswered THEN "lost" ELSE "over"
                [] new.at \in {"loop", "write", "release"} -> "answered"
                [] OTHER -> @,
    !.total = IF new.total = M!Unanswered THEN @ ELSE new.total,
    !.bytes = IF old.at = "write" /\ new.pos = old.pos + 1 THEN Append(@, new.pos) ELSE @]

\* What the server sees when the client closes its connections (close_socket).
HangUp ==
  /\ line' = [c \in DOMAIN line |->
       IF \E f \in File : link[f] = c /\ conn'[f].state = "closed"
       THEN [line[c] EXCEPT !.open = FALSE] ELSE line[c]]
  /\ link' = [f \in File |-> IF conn'[f].state = "closed" THEN 0 ELSE link[f]]
  /\ UNCHANGED <<master, order>>

\* A call comes when the server is said to listen: REQ_PULL waits 110 ms after the
\* handle was set, which is taken to be enough.
Pull ==
  /\ worker \notin {"start", "handle", "bind", "run"}
  /\ C!Call
  /\ HangUp

CallStep == C!CallStep /\ HangUp
JobStep(f) == C!JobStep(f) /\ HangUp

\* What has gone wrong so far, at either end or between them, is bounded.
Accidents ==
  counts.stops + counts.kills + counts.breaks + faults + (IF stopper = "idle" THEN 0 ELSE 1)
Calm == Accidents < MaxAccidents[order]

ClientStop == Calm /\ C!Stop /\ UNCHANGED <<master, line, joint>>
Kill == Calm /\ C!Kill /\ HangUp

Lost(f) == conn' = [conn EXCEPT ![f].state = "lost", ![f].bytes = <<>>]

\* A connection breaks; the server learns of it when it writes.
Break(f) ==
  /\ Calm /\ C!Break(f)
  /\ line' = [c \in DOMAIN line |->
       IF c = link[f] THEN [line[c] EXCEPT !.open = FALSE] ELSE line[c]]
  /\ UNCHANGED <<master, joint>>

\* A request comes to the server, or is refused.
Arrive(f) ==
  /\ conn[f].state = "sent" /\ link[f] = 0
  /\ \/ /\ M!Connect(f, conn[f].range)
        /\ link' = [link EXCEPT ![f] = Len(line) + 1]
        /\ UNCHANGED conn
     \/ /\ ~socket
        /\ Lost(f)
        /\ UNCHANGED <<master, line, link>>
  /\ UNCHANGED <<disk, cache, job, callVars, status, counts, torn, order>>

\* Nothing comes any more: the server sends nothing behind the end of the file, or has
\* no thread to take the connection.
Silent(l) ==
  \/ l.at \in {"loop", "write"} /\ l.pos >= Size[l.file]
  \/ l.at = "queued" /\ Cardinality(M!Served) >= M!Threads

\* The read timeout of the client (web_timeout).
Timeout(f) ==
  /\ conn[f].state \in {"sent", "answered"} /\ conn[f].bytes = <<>>
  /\ link[f] # 0 /\ Silent(line[link[f]])
  /\ Lost(f)
  /\ UNCHANGED <<disk, cache, job, callVars, status, counts, torn, master, line, joint>>

\* The server's threads.
ConnStep(c) ==
  /\ M!ConnStep(c) /\ (faults' = faults \/ Calm)
  /\ conn' = [f \in File |-> IF link[f] = c THEN Seen(conn[f], line[c], line'[c]) ELSE conn[f]]
  /\ UNCHANGED <<disk, cache, job, callVars, status, counts, torn, joint>>

WorkerStep == M!WorkerStep /\ (faults' = faults \/ Calm) /\ UNCHANGED <<client, joint>>
StopThread ==
  /\ \/ Calm /\ M!ReadHandle
     \/ M!StopServer \/ M!SetReady
  /\ UNCHANGED <<client, joint>>

Init == order \in Orders /\ C!Init /\ M!Init /\ link = [f \in File |-> 0]

Next ==
  \/ Pull \/ CallStep \/ ClientStop \/ Kill
  \/ \E f \in File : JobStep(f) \/ Break(f) \/ Arrive(f) \/ Timeout(f)
  \/ WorkerStep \/ StopThread
  \/ \E c \in DOMAIN line : ConnStep(c)

Spec == Init /\ [][Next]_vars

\* The threads run, and the connections are made or time out.
FairSpec ==
  /\ Spec
  /\ WF_vars(Pull) /\ WF_vars(CallStep) /\ WF_vars(WorkerStep)
  /\ WF_vars(stopper # "idle" /\ StopThread)
  /\ \A f \in File : WF_vars(JobStep(f)) /\ WF_vars(Arrive(f)) /\ WF_vars(Timeout(f))
  /\ \A c \in 1 .. MaxConns : WF_vars(c \in DOMAIN line /\ ConnStep(c))

-----------------------------------------------------------------------------
(* Properties. *)

TypeOK ==
  /\ order \in Orders
  /\ C!TypeOK /\ M!TypeOK
  /\ link \in [File -> Nat] /\ \A f \in File : link[f] <= Len(line)

\* A call that succeeded leaves the files whole, unless a breakpoint did not agree with
\* its data: nothing else that breaks, cancels or kills a call leaves a wrong file
\* (Client::download, distribute).
PulledIsWhole == C!WholeUnlessTorn

\* The data is never behind the breakpoint, at whatever moment the process dies: a
\* later call leaves no hole (content receiver: flush of wfile, then of wCachefile).
NeverBehind == C!NeverBehind

\* A call comes to its end, or its process does, whatever the master does
\* (threadPool.shutdown, web_timeout).
CallEnds == C!CallEnds

\* A distribution that nobody stopped succeeds only when every file was offered to
\* its last byte, by one connection or another (distribute, the provider's release).
SuccessIsOffered == M!SuccessIsOffered

\* A stop that finds the server running ends the distribution, whoever is being served,
\* waits in a queue, or has stopped the server himself (stopThread, Server::stop,
\* write_content, TaskQueue::shutdown).
StopEnds == M!StopEnds

\* Without an accident both ends finish, with success (download, distribute).
BothFinish ==
  <>(Accidents > 0 \/ (outcome = "done" /\ worker = "returned" /\ mstatus = "SUCCEED"))
=============================================================================
