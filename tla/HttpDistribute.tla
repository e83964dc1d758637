--------------------------- MODULE HttpDistribute ---------------------------
(***************************************************************************)
(* The master's file server, src/core/distribute_http.cpp, with the part   *)
(* of the vendored httplib::Server it runs on, and WebQueue::stopThread,   *)
(* which ends it from another thread.                                      *)
(*                                                                         *)
(* The worker listens until every url was fetched: a connection that sent  *)
(* the last of a file erases its url, and the one that erases the last url *)
(* stops the server.  Connections wait in the backlog, are accepted into   *)
(* the queue of a thread pool (ThreadPool) with a thread per file, and     *)
(* carry one request each ("Connection: close").                           *)
(*                                                                         *)
(* A byte is its position in the file.  HttpTransfer has the clients, the  *)
(* assumption on the constants, and the run.  Left out: transfers and      *)
(* progress, paths that are not /pull/<domain>/<name> (answered with a     *)
(* page), packages that change while they are served, and the assertion of *)
(* Server::stop, which a stop from outside with a connection under way     *)
(* makes fail where assertions are built.                                  *)
(***************************************************************************)
EXTENDS Integers, Sequences, FiniteSets

CONSTANTS
  File,         \* the files of the upgrade
  Size,         \* file.size
  ThreadCount,  \* CPPHTTPLIB_THREAD_POOL_COUNT
  MaxConns      \* bound: the connections

NoRange == -1
Unanswered == -1

\* The server's end of a connection: the first byte asked for, what was promised, the
\* next byte and the byte to end before, and whether the client still listens.
Line ==
  [ file : File, range : Nat \cup {NoRange}, at : {"backlog", "queued", "loop", "write", "release", "closed"},
    total : Nat \cup {Unanswered}, pos : Nat, end : Nat, finished : BOOLEAN, success : BOOLEAN,
    open : BOOLEAN ]

\* A connection that just came; one that is over keeps what was promised.
Fresh(f, range) ==
  [ file |-> f, range |-> range, at |-> "backlog", total |-> Unanswered, pos |-> 0,
    end |-> 0, finished |-> FALSE, success |-> FALSE, open |-> TRUE ]
Over(l, total) ==
  [Fresh(l.file, NoRange) EXCEPT !.at = "closed", !.total = total, !.open = FALSE]

VARIABLES
  order,    \* (fixed) the files that are served
  line,     \* the connections, in the order they came
  worker,   \* where distribute() is
  handle,   \* the handle is the server
  running,  \* is_running_
  socket,   \* svr_sock_ is valid
  ready,    \* what breakFunction() says: workThread.isReadyFinished()
  status,   \* statusHelper.status.state
  urls,     \* distributeUrls, as files
  stopper,  \* where stopThread is
  offered,  \* history: the files whose last byte was given to a client, or is there
  faults    \* how often the port was taken, a file did not open, a client did not read

Files == {order[i] : i \in DOMAIN order}

server == <<running, socket>>
vars == <<line, worker, handle, server, ready, status, urls, stopper, offered, faults>>

checkDone == status = "FAILED" \/ ready
Checked == IF status = "SUCCEED" /\ ready THEN "CANCELED" ELSE status

-----------------------------------------------------------------------------
(* httplib::Server. *)

Closed(c, total) == [line EXCEPT ![c] = Over(@, total)]

\* Server::stop.
ServerStop == socket' = (socket /\ ~running) /\ UNCHANGED running

In(ats) == {c \in DOMAIN line : line[c].at \in ats}
Served == In({"loop", "write", "release"})
Threads == IF Cardinality(Files) > ThreadCount THEN ThreadCount ELSE Cardinality(Files)

\* listen_internal: the loop takes the next connection,
Accept ==
  /\ worker = "accept" /\ socket
  /\ \E c \in In({"backlog"}) :
       /\ \A d \in In({"backlog"}) : c <= d
       /\ line' = [line EXCEPT ![c].at = "queued"]
  /\ UNCHANGED <<worker, handle, server, ready, status, urls, stopper, offered, faults>>

\* is left when the socket is closed,
Leave ==
  /\ worker = "accept" /\ ~socket
  /\ worker' = "drain"
  /\ UNCHANGED <<line, handle, server, ready, status, urls, stopper, offered, faults>>

\* and waits for the connections in the pool (TaskQueue::shutdown).
Drained == In({"queued"}) \cup Served = {}
Drain ==
  /\ worker = "drain" /\ Drained
  /\ worker' = "listened"
  /\ running' = FALSE
  /\ UNCHANGED <<line, handle, socket, ready, status, urls, stopper, offered, faults>>

\* What was not accepted when the socket was closed is refused.
Reset(c) ==
  /\ line[c].at = "backlog" /\ ~socket
  /\ line' = Closed(c, Unanswered)
  /\ UNCHANGED <<worker, handle, server, ready, status, urls, stopper, offered, faults>>

-----------------------------------------------------------------------------
(* A connection. *)

\* A thread of the pool takes the next one.
Takes(c) ==
  /\ line[c].at = "queued"
  /\ \A d \in In({"queued"}) : c <= d
  /\ Cardinality(Served) < Threads

\* process_server_socket_core: a server that was stopped reads no request.
Unserved(c) ==
  /\ Takes(c) /\ ~socket
  /\ line' = Closed(c, Unanswered)
  /\ UNCHANGED <<worker, handle, server, ready, status, urls, stopper, offered, faults>>

Begin(l) == IF l.range = NoRange THEN 0 ELSE l.range

\* The url is done with; the last one stops the server.
Erase(f) ==
  /\ urls' = urls \ {f}
  /\ IF urls \ {f} = {} THEN ServerStop ELSE UNCHANGED server

\* The handler answers without content when it has to stop or the url is done with,
\* and with an error page, or nothing, when nothing is left to send.  The length it
\* promises is that of the whole file.
Refuse(c) ==
  LET l == line[c]
  IN /\ Takes(c) /\ socket
     /\ \/ /\ checkDone \/ l.file \notin urls
           /\ line' = Closed(c, 0)
           /\ status' = Checked
           /\ UNCHANGED <<server, urls, offered>>
        \/ /\ ~checkDone /\ l.file \in urls /\ Begin(l) > Size[l.file]
           /\ line' = Closed(c, Size[l.file])
           /\ status' = "FAILED"
           /\ UNCHANGED <<server, urls, offered>>
        \/ /\ ~checkDone /\ l.file \in urls /\ Begin(l) = Size[l.file]
           /\ line' = Closed(c, Size[l.file])
           /\ offered' = offered \cup {l.file}
           /\ Erase(l.file)
           /\ UNCHANGED status
     /\ UNCHANGED <<worker, handle, ready, stopper, faults>>

\* A range goes to the file's size, inclusively, which is one byte more than there is.
\* Mutant: it does without a range.
EndInclusive(l) == Size[l.file] + 1
End(l) == IF l.range = NoRange THEN Size[l.file] ELSE Size[l.file] + 1

\* Otherwise it sets the content provider.
Serve(c) ==
  LET l == line[c]
      f == l.file
  IN /\ Takes(c) /\ socket /\ ~checkDone /\ f \in urls /\ Begin(l) < Size[f]
     /\ line' = [line EXCEPT ![c] = [l EXCEPT
          !.at = "loop", !.total = Size[f], !.pos = Begin(l), !.end = End(l)]]
     /\ UNCHANGED <<worker, handle, server, ready, status, urls, stopper, offered, faults>>

\* write_content: the loop.  A server that was stopped counts as all written.
Loop(c) ==
  /\ line[c].at = "loop"
  /\ line' = IF line[c].pos < line[c].end /\ socket
             THEN [line EXCEPT ![c].at = "write"]
             ELSE [line EXCEPT ![c].at = "release", ![c].success = TRUE]
  /\ UNCHANGED <<worker, handle, server, ready, status, urls, stopper, offered, faults>>

\* The provider sends a piece; behind the end of the file it sends nothing, again and
\* again.  Whether the client has got it does not matter.
Write(c) ==
  LET l == line[c]
      last == l.pos + 1 >= Size[l.file]
  IN /\ l.at = "write" /\ ~checkDone
     /\ \/ line' = [line EXCEPT ![c] = [l EXCEPT !.at = "loop", !.finished = last,
             !.pos = IF l.pos < Size[l.file] THEN l.pos + 1 ELSE l.pos]]
        \/ /\ ~l.open /\ l.pos < Size[l.file]
           /\ line' = [line EXCEPT ![c] = [l EXCEPT !.at = "release", !.finished = last]]
     /\ offered' = IF last THEN offered \cup {l.file} ELSE offered
     /\ UNCHANGED <<worker, handle, server, ready, status, urls, stopper, faults>>

\* The provider gives up: it has to stop, the file cannot be opened at first, or
\* the client does not read.
GiveUp(c) ==
  LET l == line[c]
  IN /\ l.at = "write"
     /\ \/ checkDone /\ status' = Checked /\ faults' = faults
        \/ /\ ~checkDone /\ faults' = faults + 1
           /\ \/ l.pos = Begin(l) /\ status' = "FAILED"
              \/ l.pos < Size[l.file] /\ UNCHANGED status
     /\ line' = [line EXCEPT ![c].at = "release", ![c].finished = FALSE]
     /\ UNCHANGED <<worker, handle, server, ready, urls, stopper, offered>>

\* The response is destroyed: the url is done with if all was written, or the last
\* piece was tried.  Mutant: it is in any case.
ReleasesAlways(l) == TRUE
Releases(l) == l.success \/ l.finished
Release(c) ==
  LET l == line[c]
  IN /\ l.at = "release"
     /\ line' = Closed(c, l.total)
     /\ IF Releases(l) THEN Erase(l.file) ELSE UNCHANGED <<server, urls>>
     /\ UNCHANGED <<worker, handle, ready, status, stopper, offered, faults>>

ConnStep(c) ==
  Reset(c) \/ Unserved(c) \/ Refuse(c) \/ Serve(c) \/ Loop(c) \/ Write(c) \/ GiveUp(c)
  \/ Release(c)

-----------------------------------------------------------------------------
(* distribute(). *)

Return(state) ==
  /\ worker' = "returned" /\ handle' = FALSE
  /\ status' = state

\* No files, or already told to stop.
Start ==
  /\ worker = "start"
  /\ \/ (Files = {} \/ checkDone) /\ Return(IF Files = {} THEN "FAILED" ELSE Checked)
     \/ /\ Files # {} /\ ~checkDone
        /\ worker' = "handle"
        /\ UNCHANGED <<handle, status>>
  /\ UNCHANGED <<line, server, ready, urls, stopper, offered, faults>>

\* Mutant: it is set behind listen().
SetHandleLate ==
  /\ worker = "handle" /\ worker' = "bind"
  /\ UNCHANGED <<line, handle, server, ready, status, urls, stopper, offered, faults>>
SetHandle ==
  /\ worker = "handle"
  /\ worker' = "bind" /\ handle' = TRUE
  /\ UNCHANGED <<line, server, ready, status, urls, stopper, offered, faults>>

\* The port may be taken: listen() returns at once.
Bind ==
  /\ worker = "bind"
  /\ \/ socket' = TRUE /\ worker' = "run" /\ faults' = faults
     \/ worker' = "listened" /\ faults' = faults + 1 /\ UNCHANGED socket
  /\ UNCHANGED <<line, handle, running, ready, status, urls, stopper, offered>>

Run ==
  /\ worker = "run"
  /\ running' = TRUE /\ worker' = "accept"
  /\ UNCHANGED <<line, handle, socket, ready, status, urls, stopper, offered, faults>>

After ==
  /\ worker = "listened"
  /\ Return(IF ~checkDone /\ urls # {} THEN "FAILED" ELSE Checked)
  /\ UNCHANGED <<line, server, ready, urls, stopper, offered, faults>>

WorkerStep == Start \/ SetHandle \/ Bind \/ Run \/ Accept \/ Leave \/ Drain \/ After

-----------------------------------------------------------------------------
(* WebQueue::stopThread, from the thread of the queue. *)

\* A stop before the server runs is not heard (`missed'): is_running_ is not set yet,
\* or the handle is not.
Told == IF worker \in {"start", "handle", "bind", "run"} THEN "missed" ELSE "stopped"

\* stopDistribute reads the handle, and calls stop() on what it has read.
ReadHandle ==
  /\ stopper = "idle"
  /\ stopper' = IF handle THEN "holds" ELSE Told
  /\ UNCHANGED <<line, worker, handle, server, ready, status, urls, offered, faults>>

\* Meanwhile distribute() may have returned, and its server is gone: what lies there
\* does not run, or the process ends.
StopServer ==
  /\ stopper = "holds"
  /\ \/ worker # "returned" /\ ServerStop /\ stopper' = Told
     \/ worker = "returned" /\ stopper' \in {"stopped", "ended"} /\ UNCHANGED server
  /\ UNCHANGED <<line, worker, handle, ready, status, urls, offered, faults>>

SetReady ==
  /\ stopper \in {"stopped", "missed"}
  /\ stopper' = IF stopper = "stopped" THEN "waiting" ELSE "deaf"
  /\ ready' = TRUE
  /\ UNCHANGED <<line, worker, handle, server, status, urls, offered, faults>>

-----------------------------------------------------------------------------
(* The clients. *)

\* A connection for f, from a byte on; there is none when nobody listens.
Connect(f, range) ==
  /\ Len(line) < MaxConns /\ socket
  /\ line' = Append(line, Fresh(f, range))
  /\ UNCHANGED <<worker, handle, server, ready, status, urls, stopper, offered, faults>>

Init ==
  /\ line = <<>>
  /\ worker = "start" /\ handle = FALSE
  /\ running = FALSE /\ socket = FALSE
  /\ ready = FALSE /\ status = "SUCCEED" /\ urls = Files
  /\ stopper = "idle" /\ offered = {} /\ faults = 0

-----------------------------------------------------------------------------
(* Properties. *)

TypeOK ==
  /\ line \in Seq(Line)
  /\ worker \in {"start", "handle", "bind", "run", "accept", "drain", "listened", "returned"}
  /\ handle \in BOOLEAN /\ running \in BOOLEAN /\ socket \in BOOLEAN
  /\ ready \in BOOLEAN /\ faults \in Nat
  /\ status \in {"SUCCEED", "FAILED", "CANCELED"}
  /\ urls \subseteq Files /\ offered \subseteq Files
  /\ stopper \in {"idle", "holds", "missed", "stopped", "waiting", "deaf", "ended"}

\* A distribution that nobody stopped succeeds only when every file was offered to
\* its last byte, to some client, by one connection or another (distribute, the
\* provider's release); whether it came through is not known here.
SuccessIsOffered ==
  worker = "returned" /\ status = "SUCCEED" /\ stopper = "idle" => offered = Files

\* A stop that finds the server running ends the distribution, whoever is being served,
\* waits in a queue, or has stopped the server himself (stopThread, Server::stop,
\* write_content, TaskQueue::shutdown).  One that comes before is not heard.
StopEnds == stopper = "waiting" ~> worker = "returned"
=============================================================================
