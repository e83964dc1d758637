------------------------- MODULE HttpTransferProofs -------------------------
(***************************************************************************)
(* Proofs about HttpTransfer, for every upgrade, any sizes of its files,   *)
(* any number of threads, calls and accidents.                             *)
(*                                                                         *)
(* What the client has of a file is a beginning of it, as long as every    *)
(* breakpoint agreed with its data.  The invariant follows a byte: the     *)
(* next one that the server's end of the connection sends is the next one  *)
(* that the client's file lacks, behind those on their way.  With what the *)
(* urls that are done with mean at either end, the calls' results follow.  *)
(***************************************************************************)
EXTENDS HttpTransfer, TLAPS, SequenceTheorems

-----------------------------------------------------------------------------
(* The invariant: the server. *)

\* One connection: what was finished, or has nothing left to send, was offered.
LineOK(l) ==
  /\ l.file \in M!Files
  /\ l.finished => l.file \in offered
  /\ l.at \in {"loop", "write", "release"} =>
       l.end >= Size[l.file] /\ (l.pos >= Size[l.file] => l.file \in offered)
  /\ l.success /\ stopper = "idle" => l.file \in offered \/ murls = {}

\* While nobody stops it, the server stops when every url is done with, and a url is
\* done with when its file was offered.
ServerOK ==
  /\ \A c \in DOMAIN line : LineOK(line[c])
  /\ worker \notin {"accept", "drain"} =>
       \A c \in DOMAIN line : line[c].at \in {"backlog", "closed"}
  /\ stopper = "idle" =>
       /\ ~ready
       /\ M!Files \ murls \subseteq offered
       /\ line # <<>> /\ ~socket => murls = {}
       /\ worker = "returned" /\ mstatus = "SUCCEED" => murls = {}

-----------------------------------------------------------------------------
(* The invariant: a file of the client, and its job. *)

Has(f) == disk[f] # NoFile
Active(f) == job[f].pc \in {"receive", "flush", "progress"}

\* The data of a file is there before what counts it; a job that is active has a
\* connection, and the call waits for it.
FileOK(f) ==
  /\ cache[f] # NoFile => Has(f) /\ Len(disk[f]) >= cache[f]
  /\ Active(f) =>
       /\ Has(f) /\ Len(disk[f]) >= job[f].current
       /\ f \in C!Listed /\ call \in {"enqueued", "joining"}
  /\ conn[f].state = "closed" <=> ~Active(f)
  /\ ~Active(f) => link[f] = 0

CallOK ==
  /\ call \in {"enqueued", "joining"} => ~C!Repeats
  /\ call = "returned" /\ status = "SUCCEED" => urls = {}
  /\ outcome = "done" => call = "idle"

-----------------------------------------------------------------------------
(* The invariant: the bytes of a file. *)

\* What is there of a file is a beginning of it.
Beginning(f) ==
  Has(f) => Len(disk[f]) <= Size[f] /\ \A i \in DOMAIN disk[f] : disk[f][i] = i

\* The bytes on their way are the next ones.
Following(f) ==
  Active(f) =>
    /\ Len(disk[f]) + Len(conn[f].bytes) <= Size[f]
    /\ \A i \in DOMAIN conn[f].bytes : conn[f].bytes[i] = Len(disk[f]) + i
    /\ conn[f].bytes # <<>> \/ job[f].pc \in {"flush", "progress"} => conn[f].total = Size[f]
    /\ job[f].got <= Len(disk[f])
    /\ job[f].finished => Len(disk[f]) = Size[f]

\* A request asks for the next byte, and is answered from there.
Asked(f) ==
  conn[f].state = "sent" =>
    /\ conn[f].bytes = <<>> /\ job[f].pc = "receive"
    /\ M!Begin(conn[f]) = Len(disk[f])

Answered(f) ==
  LET l == line[link[f]]
  IN /\ link[f] # 0 => l.file = f
     /\ conn[f].state = "sent" /\ link[f] # 0 =>
          l.at \in {"backlog", "queued"} /\ l.range = conn[f].range
     /\ conn[f].state = "answered" =>
          /\ link[f] # 0 /\ l.at \in {"loop", "write", "release"}
          /\ l.total = Size[f] /\ conn[f].total = Size[f]
          /\ l.pos = Len(disk[f]) + Len(conn[f].bytes)
     /\ conn[f].state = "over" => link[f] # 0 /\ l.at = "closed"

\* A file whose url is done with is there.
Complete(f) == Has(f) /\ Len(disk[f]) = Size[f]
Fetched(f) ==
  f \in C!Listed =>
    /\ call # "idle" /\ Url[f] \notin urls => Complete(f) /\ job[f].pc # "queued"
    /\ outcome = "done" => Complete(f)

ByteOK(f) == Beginning(f) /\ Following(f) /\ Asked(f) /\ Answered(f) /\ Fetched(f)

IInv ==
  /\ TypeOK
  /\ ServerOK
  /\ CallOK
  /\ \A f \in File : FileOK(f) /\ (~torn => ByteOK(f))

-----------------------------------------------------------------------------
(* The connections at the server's end. *)

LEMMA LineExcept ==
  ASSUME line \in Seq(M!Line), NEW c \in DOMAIN line, NEW l \in M!Line
  PROVE  LET new == [line EXCEPT ![c] = l]
         IN /\ new \in Seq(M!Line) /\ DOMAIN new = DOMAIN line /\ Len(new) = Len(line)
            /\ new[c] = l /\ \A d \in DOMAIN line : d # c => new[d] = line[d]
  <1>1. DOMAIN line = 1 .. Len(line) /\ c \in 1 .. Len(line)
    BY LenProperties
  <1>2. [line EXCEPT ![c] = l] \in Seq(M!Line) /\ Len([line EXCEPT ![c] = l]) = Len(line)
    BY <1>1, ExceptSeq
  <1> QED
    BY <1>1, <1>2

LEMMA FreshFacts ==
  ASSUME NEW f \in File, NEW range \in Nat \cup {M!NoRange}
  PROVE  LET l == M!Fresh(f, range)
         IN /\ l \in M!Line /\ l.file = f /\ l.range = range /\ l.at = "backlog"
            /\ ~l.finished /\ ~l.success
  BY DEF M!Fresh, M!Line, M!Unanswered

LEMMA OverFacts ==
  ASSUME NEW l \in M!Line, NEW total \in Nat \cup {M!Unanswered}
  PROVE  LET over == M!Over(l, total)
         IN /\ over \in M!Line /\ over.file = l.file /\ over.at = "closed"
            /\ over.total = total /\ ~over.finished /\ ~over.success
  <1> DEFINE x == M!Fresh(l.file, M!NoRange)
  <1>1. l.file \in File /\ M!NoRange \in Nat \cup {M!NoRange}
    BY DEF M!Line
  <1>2. x \in M!Line /\ x.file = l.file /\ ~x.finished /\ ~x.success
    BY <1>1, FreshFacts
  <1>3. M!Over(l, total) = [x EXCEPT !.at = "closed", !.total = total, !.open = FALSE]
    BY DEF M!Over
  <1> HIDE DEF x
  <1> QED
    BY <1>2, <1>3 DEF M!Line

\* How a connection goes on, as far as the client can tell.
Turns(old, new) ==
  /\ new.file = old.file
  /\ \/ /\ old.at \in {"backlog", "queued"} /\ new.at = "closed"
     \/ /\ old.at = "queued" /\ new.at = "loop"
        /\ new.total = Size[old.file] /\ new.pos = M!Begin(old) /\ new.pos <= Size[old.file]
     \/ /\ old.at = "loop" /\ new.at \in {"write", "release"}
        /\ new.total = old.total /\ new.pos = old.pos
     \/ /\ old.at = "write" /\ new.at \in {"loop", "release"} /\ new.total = old.total
        /\ new.pos = old.pos \/ (new.pos = old.pos + 1 /\ new.pos <= Size[old.file])
     \/ /\ old.at = "release" /\ new.at = "closed" /\ new.total = old.total

\* What the server's step at a connection comes to.
Turned(c) ==
  /\ M!TypeOK' /\ ServerOK'
  /\ DOMAIN line' = DOMAIN line /\ Len(line') = Len(line)
  /\ Turns(line[c], line'[c])
  /\ \A d \in DOMAIN line : d # c => line'[d] = line[d]

\* The server when a connection has become l.
LEMMA ServerGoesOn ==
  ASSUME IInv, NEW c \in DOMAIN line, NEW l \in M!Line, line' = [line EXCEPT ![c] = l],
         UNCHANGED <<worker, handle, ready, stopper, order>>,
         offered \subseteq offered', offered' \subseteq offered \cup {line[c].file},
         murls' \subseteq murls, murls \subseteq murls' \cup {line[c].file},
         stopper = "idle" /\ line[c].file \in murls \ murls' => line[c].file \in offered',
         stopper = "idle" /\ socket /\ ~socket' => murls' = {},
         mstatus' \in {"SUCCEED", "FAILED", "CANCELED"},
         mstatus' = "SUCCEED" => mstatus = "SUCCEED",
         socket' \in BOOLEAN, running' \in BOOLEAN, faults' \in Nat,
         LineOK(l)', Turns(line[c], l),
         worker \in {"accept", "drain"} \/ l.at \in {"backlog", "closed"}
  PROVE  Turned(c)
  <1>1. line \in Seq(M!Line) /\ M!TypeOK
    BY DEF IInv, TypeOK, M!TypeOK
  <1>2. /\ line' \in Seq(M!Line) /\ DOMAIN line' = DOMAIN line /\ Len(line') = Len(line)
        /\ line'[c] = l /\ \A d \in DOMAIN line : d # c => line'[d] = line[d]
    BY <1>1, LineExcept
  <1>3. LineOK(line[c]) /\ line[c].file \in M!Files /\ M!Files' = M!Files
    BY DEF IInv, ServerOK, LineOK, M!Files
  <1>4. M!TypeOK'
    BY <1>1, <1>2, <1>3 DEF M!TypeOK
  <1>5. ASSUME NEW d \in DOMAIN line' PROVE LineOK(line[d])'
    <2>1. CASE d = c
      BY <1>2, <2>1 DEF LineOK
    <2>2. CASE d # c
      <3>1. LineOK(line[d]) /\ line'[d] = line[d]
        BY <1>2, <1>5, <2>2 DEF IInv, ServerOK
      <3> QED
        BY <1>3, <3>1 DEF LineOK
    <2> QED
      BY <2>1, <2>2
  <1>6. line # <<>> /\ line' # <<>>
    BY <1>1, <1>2, LenProperties, EmptySeq
  <1>7. worker' \notin {"accept", "drain"} =>
          \A d \in DOMAIN line' : line'[d].at \in {"backlog", "closed"}
    BY <1>2 DEF IInv, ServerOK
  <1>8. stopper' = "idle" =>
          /\ ~ready'
          /\ M!Files' \ murls' \subseteq offered'
          /\ line' # <<>> /\ ~socket' => murls' = {}
          /\ worker' = "returned" /\ mstatus' = "SUCCEED" => murls' = {}
    BY <1>3, <1>6 DEF IInv, ServerOK
  <1> QED
    BY <1>2, <1>4, <1>5, <1>7, <1>8 DEF ServerOK, Turned
-----------------------------------------------------------------------------
(* The steps of the server's threads at a connection. *)

\* What is known of a connection.
LEMMA ConnFacts ==
  ASSUME IInv, NEW c \in DOMAIN line
  PROVE  /\ line \in Seq(M!Line) /\ line[c] \in M!Line /\ LineOK(line[c]) /\ line # <<>>
         /\ line[c].file \in File /\ line[c].file \in M!Files /\ M!Files \subseteq File
         /\ Size[line[c].file] \in Nat /\ M!Begin(line[c]) \in Nat
         /\ line[c].pos \in Nat /\ line[c].end \in Nat
         /\ line[c].total \in Nat \cup {M!Unanswered}
         /\ line[c].at \in {"backlog", "queued", "loop", "write", "release", "closed"}
         /\ murls \subseteq M!Files /\ offered \subseteq M!Files
         /\ mstatus \in {"SUCCEED", "FAILED", "CANCELED"} /\ faults \in Nat
         /\ socket \in BOOLEAN /\ running \in BOOLEAN /\ stopper \in
              {"idle", "holds", "missed", "stopped", "waiting", "deaf", "ended"}
         /\ line[c].at \notin {"backlog", "closed"} => worker \in {"accept", "drain"}
  <1>1. line \in Seq(M!Line) /\ M!TypeOK /\ LineOK(line[c])
    BY DEF IInv, TypeOK, M!TypeOK, ServerOK
  <1>2. line[c] \in M!Line /\ line # <<>>
    BY <1>1, LenProperties, EmptySeq, ElementOfSeq
  <1>3. line[c].file \in File /\ line[c].range \in Nat \cup {M!NoRange}
    BY <1>2 DEF M!Line
  <1>4. Size[line[c].file] \in Nat
    BY <1>3, TransferAssumption
  <1>5. M!Begin(line[c]) \in Nat
    BY <1>3 DEF M!Begin, M!NoRange
  <1>6. M!Files \subseteq File
    <2>1. order \in Seq(File)
      BY TransferAssumption DEF IInv, TypeOK
    <2> QED
      BY <2>1, LenProperties, ElementOfSeq DEF M!Files
  <1>7. line[c].at \notin {"backlog", "closed"} => worker \in {"accept", "drain"}
    BY DEF IInv, ServerOK
  <1>8. /\ line[c].pos \in Nat /\ line[c].end \in Nat
        /\ line[c].total \in Nat \cup {M!Unanswered}
        /\ line[c].at \in {"backlog", "queued", "loop", "write", "release", "closed"}
    BY <1>2 DEF M!Line
  <1> QED
    BY <1>1, <1>2, <1>3, <1>4, <1>5, <1>6, <1>7, <1>8 DEF M!TypeOK, LineOK

\* The connection is closed by the server, and the server may have learned something.
LEMMA CloseTurns ==
  ASSUME IInv, NEW c \in DOMAIN line, NEW total \in Nat \cup {M!Unanswered},
         line[c].at \in {"backlog", "queued"}
           \/ (line[c].at = "release" /\ total = line[c].total),
         line' = M!Closed(c, total),
         UNCHANGED <<worker, handle, ready, stopper, order>>,
         offered \subseteq offered', offered' \subseteq offered \cup {line[c].file},
         murls' \subseteq murls, murls \subseteq murls' \cup {line[c].file},
         stopper = "idle" /\ line[c].file \in murls \ murls' => line[c].file \in offered',
         stopper = "idle" /\ socket /\ ~socket' => murls' = {},
         mstatus' \in {"SUCCEED", "FAILED", "CANCELED"},
         mstatus' = "SUCCEED" => mstatus = "SUCCEED",
         socket' \in BOOLEAN, running' \in BOOLEAN, faults' = faults
  PROVE  Turned(c)
  <1>1. PICK l \in M!Line :
          /\ line' = [line EXCEPT ![c] = l]
          /\ l.file = line[c].file /\ l.at = "closed" /\ l.total = total
          /\ ~l.finished /\ ~l.success
    <2>1. line' = [line EXCEPT ![c] = M!Over(line[c], total)]
      BY DEF M!Closed
    <2>2. /\ M!Over(line[c], total) \in M!Line /\ M!Over(line[c], total).file = line[c].file
          /\ M!Over(line[c], total).at = "closed" /\ M!Over(line[c], total).total = total
          /\ ~M!Over(line[c], total).finished /\ ~M!Over(line[c], total).success
      <3>1. line[c] \in M!Line
        BY ConnFacts
      <3> QED
        BY <3>1, OverFacts
    <2> QED
      BY <2>1, <2>2
  <1>3. LineOK(l)'
    BY <1>1, ConnFacts DEF LineOK, M!Files
  <1>4. Turns(line[c], l)
    BY <1>1 DEF Turns
  <1>5. faults' \in Nat
    BY ConnFacts
  <1> QED
    BY <1>1, <1>3, <1>4, <1>5, ServerGoesOn
LEMMA RefusedTurns ==
  ASSUME IInv, NEW c \in DOMAIN line, M!Reset(c) \/ M!Unserved(c) \/ M!Refuse(c), order' = order
  PROVE  Turned(c)
  <1>1. M!Unanswered \in Nat \cup {M!Unanswered} /\ 0 \in Nat
    OBVIOUS
  <1>2. CASE M!Reset(c)
    BY <1>1, <1>2, CloseTurns, ConnFacts DEF M!Reset, M!server
  <1>3. CASE M!Unserved(c)
    BY <1>1, <1>3, CloseTurns, ConnFacts DEF M!Unserved, M!Takes, M!server
  <1>4. CASE M!Refuse(c)
    <2> DEFINE f == line[c].file
    <2>1. line[c].at = "queued" /\ socket
          /\ UNCHANGED <<worker, handle, ready, stopper, faults>>
      BY <1>4 DEF M!Refuse, M!Takes
    <2>2. M!Checked \in {"SUCCEED", "FAILED", "CANCELED"}
          /\ (M!Checked = "SUCCEED" => mstatus = "SUCCEED")
      BY ConnFacts DEF M!Checked
    <2>3. CASE /\ line' = M!Closed(c, 0) /\ mstatus' = M!Checked
               /\ UNCHANGED <<running, socket, murls, offered>>
      BY <2>1, <2>2, <2>3, <1>1, CloseTurns, ConnFacts
    <2>4. CASE /\ line' = M!Closed(c, Size[f]) /\ mstatus' = "FAILED"
               /\ UNCHANGED <<running, socket, murls, offered>>
      BY <2>1, <2>4, CloseTurns, ConnFacts
    <2>5. CASE /\ line' = M!Closed(c, Size[f]) /\ offered' = offered \cup {f}
               /\ M!Erase(f) /\ mstatus' = mstatus
      <3>1. murls' = murls \ {f} /\ socket' \in BOOLEAN /\ running' \in BOOLEAN
            /\ (socket /\ ~socket' => murls' = {})
        BY <2>5, ConnFacts DEF M!Erase, M!ServerStop, M!server
      <3> QED
        BY <2>1, <2>5, <3>1, CloseTurns, ConnFacts
    <2> QED
      BY <1>4, <2>3, <2>4, <2>5 DEF M!Refuse, M!server
  <1> QED
    BY <1>2, <1>3, <1>4

LEMMA ServedTurns ==
  ASSUME IInv, NEW c \in DOMAIN line, M!Serve(c) \/ M!Loop(c), order' = order
  PROVE  Turned(c)
  <1>1. CASE M!Serve(c)
    <2>1. PICK l \in M!Line :
            /\ line' = [line EXCEPT ![c] = l]
            /\ l.file = line[c].file /\ l.at = "loop" /\ l.total = Size[l.file]
            /\ l.pos = M!Begin(line[c]) /\ l.end = M!End(line[c])
            /\ l.finished = line[c].finished /\ l.success = line[c].success
      <3> DEFINE x == line[c]
                 l == [x EXCEPT !.at = "loop", !.total = Size[x.file],
                                !.pos = M!Begin(x), !.end = M!End(x)]
      <3>1. x \in M!Line /\ Size[x.file] \in Nat /\ M!Begin(x) \in Nat /\ M!End(x) \in Nat
        BY ConnFacts DEF M!End
      <3>2. line' = [line EXCEPT ![c] = l]
        BY <1>1 DEF M!Serve
      <3> HIDE DEF x
      <3>3. l \in M!Line
            /\ l.file = x.file /\ l.at = "loop" /\ l.total = Size[l.file]
            /\ l.pos = M!Begin(x) /\ l.end = M!End(x)
            /\ l.finished = x.finished /\ l.success = x.success
        BY <3>1 DEF M!Line
      <3> QED
        BY <3>2, <3>3 DEF x
    <2>2. /\ line[c].at = "queued" /\ socket /\ M!Begin(line[c]) < Size[line[c].file]
          /\ UNCHANGED <<worker, handle, running, socket, ready, mstatus, murls, stopper,
                         offered, faults>>
      BY <1>1 DEF M!Serve, M!Takes, M!server
    <2>3. LineOK(l)'
      BY <2>1, <2>2, ConnFacts DEF LineOK, M!Files, M!End
    <2>4. Turns(line[c], l)
      BY <2>1, <2>2, ConnFacts DEF Turns
    <2> QED
      BY <2>1, <2>2, <2>3, <2>4, ServerGoesOn, ConnFacts
  <1>2. CASE M!Loop(c)
    <2>1. PICK l \in M!Line :
            /\ line' = [line EXCEPT ![c] = l]
            /\ l.file = line[c].file /\ l.at \in {"write", "release"} /\ l.total = line[c].total
            /\ l.pos = line[c].pos /\ l.end = line[c].end
            /\ l.finished = line[c].finished
            /\ l.success => line[c].success \/ ~(line[c].pos < line[c].end /\ socket)
      <3> DEFINE x == line[c]
                 w == [x EXCEPT !.at = "write"]
                 r == [x EXCEPT !.at = "release", !.success = TRUE]
      <3>1. x \in M!Line
        BY ConnFacts
      <3>2. /\ x.pos < x.end /\ socket => line' = [line EXCEPT ![c] = w]
            /\ ~(x.pos < x.end /\ socket) => line' = [line EXCEPT ![c] = r]
        BY <1>2 DEF M!Loop
      <3> HIDE DEF x
      <3>3. w \in M!Line
            /\ w.file = x.file /\ w.at = "write" /\ w.total = x.total
            /\ w.pos = x.pos /\ w.end = x.end
            /\ w.finished = x.finished /\ w.success = x.success
        BY <3>1 DEF M!Line
      <3>4. r \in M!Line
            /\ r.file = x.file /\ r.at = "release" /\ r.total = x.total
            /\ r.pos = x.pos /\ r.end = x.end /\ r.finished = x.finished
        BY <3>1 DEF M!Line
      <3>5. CASE x.pos < x.end /\ socket
        BY <3>2, <3>3, <3>5 DEF x
      <3>6. CASE ~(x.pos < x.end /\ socket)
        BY <3>2, <3>4, <3>6 DEF x
      <3> QED
        BY <3>5, <3>6
    <2>2. /\ line[c].at = "loop"
          /\ UNCHANGED <<worker, handle, running, socket, ready, mstatus, murls, stopper,
                         offered, faults>>
      BY <1>2 DEF M!Loop, M!server
    <2>3. LineOK(l)'
      <3>1. stopper = "idle" /\ ~socket => murls = {}
        BY ConnFacts DEF IInv, ServerOK
      <3>2. ~(line[c].pos < line[c].end /\ socket) /\ stopper = "idle" =>
              line[c].file \in offered \/ murls = {}
        BY <2>2, <3>1, ConnFacts DEF LineOK
      <3> QED
        BY <2>1, <2>2, <3>2, ConnFacts DEF LineOK, M!Files
    <2>4. Turns(line[c], l)
      BY <2>1, <2>2, ConnFacts DEF Turns
    <2> QED
      BY <2>1, <2>2, <2>3, <2>4, ServerGoesOn, ConnFacts
  <1> QED
    BY <1>1, <1>2
LEMMA WrittenTurns ==
  ASSUME IInv, NEW c \in DOMAIN line, M!Write(c), order' = order
  PROVE  Turned(c)
  <1> DEFINE x == line[c]
             last == x.pos + 1 >= Size[x.file]
             next == IF x.pos < Size[x.file] THEN x.pos + 1 ELSE x.pos
             w == [x EXCEPT !.at = "loop", !.finished = last, !.pos = next]
             r == [x EXCEPT !.at = "release", !.finished = last]
  <1>1. x \in M!Line /\ x.pos \in Nat /\ Size[x.file] \in Nat
    BY ConnFacts
  <1>2. /\ x.at = "write"
        /\ last => offered' = offered \cup {x.file}
        /\ ~last => offered' = offered
        /\ UNCHANGED <<worker, handle, running, socket, ready, mstatus, murls, stopper, faults>>
    BY DEF M!Write, M!server
  <1>0. \/ line' = [line EXCEPT ![c] = w]
        \/ line' = [line EXCEPT ![c] = r]
    BY Zenon DEF M!Write
  <1>9. last \in BOOLEAN /\ (last <=> x.pos + 1 >= Size[x.file])
    OBVIOUS
  <1>10. next \in Nat /\ (next = x.pos \/ (next = x.pos + 1 /\ next <= Size[x.file]))
    BY <1>1
  <1> HIDE DEF last, next
  <1>3. x.file \in M!Files /\ M!Files' = M!Files
    BY ConnFacts DEF M!Files
  <1>4. x.end \in Nat /\ x.end >= Size[x.file] /\ (x.pos >= Size[x.file] => x.file \in offered)
        /\ (x.success /\ stopper = "idle" => x.file \in offered \/ murls = {})
    BY <1>2, ConnFacts DEF LineOK
  <1>5. offered \subseteq offered' /\ offered' \subseteq offered \cup {x.file}
    BY <1>2
  <1> SUFFICES ASSUME NEW l \in M!Line, line' = [line EXCEPT ![c] = l],
                      l.file = x.file, l.end = x.end, l.total = x.total,
                      l.finished = last, l.success = x.success,
                      l.at \in {"loop", "release"},
                      l.pos = x.pos \/ (l.pos = x.pos + 1 /\ l.pos <= Size[x.file])
               PROVE  Turned(c)
    <2> HIDE DEF x
    <2>1. w \in M!Line /\ w.file = x.file /\ w.end = x.end /\ w.total = x.total
          /\ w.finished = last /\ w.success = x.success /\ w.at = "loop"
          /\ w.pos = next
      BY <1>1, <1>9, <1>10 DEF M!Line
    <2>2. r \in M!Line /\ r.file = x.file /\ r.end = x.end /\ r.total = x.total
          /\ r.finished = last /\ r.success = x.success /\ r.at = "release"
          /\ r.pos = x.pos
      BY <1>1, <1>9 DEF M!Line
    <2> HIDE DEF w, r
    <2>4. CASE line' = [line EXCEPT ![c] = w]
      BY <1>10, <2>1, <2>4
    <2>5. CASE line' = [line EXCEPT ![c] = r]
      BY <2>2, <2>5
    <2> QED
      BY <1>0, <2>4, <2>5
  <1> HIDE DEF w, r
  <1>6. LineOK(l)'
    BY <1>1, <1>2, <1>3, <1>4, <1>9 DEF LineOK
  <1>7. Turns(line[c], l)
    BY <1>2 DEF Turns
  <1>8. worker \in {"accept", "drain"} /\ faults' \in Nat /\ socket' \in BOOLEAN
        /\ running' \in BOOLEAN /\ mstatus' \in {"SUCCEED", "FAILED", "CANCELED"}
    BY <1>2, ConnFacts
  <1> QED
    BY <1>2, <1>5, <1>6, <1>7, <1>8, ServerGoesOn

LEMMA GivenUpTurns ==
  ASSUME IInv, NEW c \in DOMAIN line, M!GiveUp(c), order' = order
  PROVE  Turned(c)
  <1>1. /\ line[c].at = "write"
        /\ mstatus' \in {"SUCCEED", "FAILED", "CANCELED"}
        /\ mstatus' = "SUCCEED" => mstatus = "SUCCEED"
        /\ faults' \in Nat
        /\ UNCHANGED <<worker, handle, running, socket, ready, murls, stopper, offered>>
    BY ConnFacts DEF M!GiveUp, M!Checked, M!server
  <1>2. PICK l \in M!Line :
          /\ line' = [line EXCEPT ![c] = l]
          /\ l.file = line[c].file /\ l.at = "release" /\ l.total = line[c].total
          /\ l.pos = line[c].pos /\ l.end = line[c].end
          /\ ~l.finished /\ l.success = line[c].success
    <2> DEFINE x == line[c]
               r == [x EXCEPT !.at = "release", !.finished = FALSE]
    <2>1. x \in M!Line
      BY ConnFacts
    <2>2. line' = [line EXCEPT ![c] = r]
      BY DEF M!GiveUp
    <2> HIDE DEF x
    <2>3. r \in M!Line
          /\ r.file = x.file /\ r.at = "release" /\ r.total = x.total
          /\ r.pos = x.pos /\ r.end = x.end /\ ~r.finished /\ r.success = x.success
      BY <2>1 DEF M!Line
    <2> QED
      BY <2>2, <2>3 DEF x
  <1>3. LineOK(l)'
    BY <1>1, <1>2, ConnFacts DEF LineOK, M!Files
  <1>4. Turns(line[c], l)
    BY <1>1, <1>2 DEF Turns
  <1> QED
    BY <1>1, <1>2, <1>3, <1>4, ServerGoesOn, ConnFacts

LEMMA ReleasedTurns ==
  ASSUME IInv, NEW c \in DOMAIN line, M!Release(c), order' = order
  PROVE  Turned(c)
  <1> DEFINE f == line[c].file
  <1>1. /\ line[c].at = "release" /\ line' = M!Closed(c, line[c].total)
        /\ UNCHANGED <<worker, handle, ready, mstatus, stopper, offered, faults>>
    BY DEF M!Release
  <1>2. CASE ~M!Releases(line[c])
    <2>1. UNCHANGED <<running, socket, murls>>
      BY <1>2 DEF M!Release, M!server
    <2> QED
      BY <1>1, <2>1, CloseTurns, ConnFacts
  <1>3. CASE M!Releases(line[c])
    <2>1. murls' = murls \ {f} /\ socket' \in BOOLEAN /\ running' \in BOOLEAN
          /\ (socket /\ ~socket' => murls' = {})
      BY <1>3, ConnFacts DEF M!Release, M!Erase, M!ServerStop, M!server
    <2>2. stopper = "idle" /\ f \in murls \ murls' => f \in offered'
      BY <1>1, <1>3, ConnFacts DEF M!Releases, LineOK
    <2> QED
      BY <1>1, <2>1, <2>2, CloseTurns, ConnFacts
  <1> QED
    BY <1>2, <1>3

\* Every step of the server's threads at a connection.
LEMMA ConnTurns ==
  ASSUME IInv, NEW c \in DOMAIN line, M!ConnStep(c), order' = order
  PROVE  Turned(c)
  BY RefusedTurns, ServedTurns, WrittenTurns, GivenUpTurns, ReleasedTurns DEF M!ConnStep
-----------------------------------------------------------------------------
(* What the client sees of it. *)

\* What is known of a file.
LEMMA FileFacts ==
  ASSUME IInv, NEW f \in File
  PROVE  /\ disk[f] \in {NoFile} \cup Seq(Nat) /\ cache[f] \in {NoFile} \cup Nat
         /\ conn[f] \in C!Connection /\ job[f] \in C!Fetch
         /\ link[f] \in Nat /\ link[f] <= Len(line) /\ line \in Seq(M!Line)
         /\ Size[f] \in Nat /\ FileOK(f) /\ (~torn => ByteOK(f))
         /\ link[f] # 0 => link[f] \in DOMAIN line
  <1>1. /\ disk[f] \in {NoFile} \cup Seq(Nat) /\ cache[f] \in {NoFile} \cup Nat
        /\ conn[f] \in C!Connection /\ job[f] \in C!Fetch
        /\ link[f] \in Nat /\ link[f] <= Len(line)
    BY DEF IInv, TypeOK, C!TypeOK
  <1>2. line \in Seq(M!Line)
    BY DEF IInv, TypeOK, M!TypeOK
  <1>3. link[f] # 0 => link[f] \in DOMAIN line
    BY <1>1, <1>2, LenProperties
  <1> QED
    BY <1>1, <1>2, <1>3, TransferAssumption DEF IInv

LEMMA SeenFacts ==
  ASSUME NEW end \in C!Connection, NEW old \in M!Line, NEW new \in M!Line
  PROVE  LET s == Seen(end, old, new)
         IN /\ s \in C!Connection /\ s.range = end.range
            /\ end.state = "lost" => s = end
            /\ end.state # "lost" =>
                 /\ new.at = "closed" /\ new.total = M!Unanswered => s.state = "lost"
                 /\ new.at = "closed" /\ new.total # M!Unanswered => s.state = "over"
                 /\ new.at \in {"loop", "write", "release"} => s.state = "answered"
                 /\ new.at \in {"backlog", "queued"} => s.state = end.state
                 /\ new.total # M!Unanswered => s.total = new.total
                 /\ old.at = "write" /\ new.pos = old.pos + 1 =>
                      s.bytes = Append(end.bytes, new.pos)
                 /\ ~(old.at = "write" /\ new.pos = old.pos + 1) => s.bytes = end.bytes
  <1> DEFINE st == CASE new.at = "closed" -> IF new.total = M!Unanswered THEN "lost" ELSE "over"
                     [] new.at \in {"loop", "write", "release"} -> "answered"
                     [] OTHER -> end.state
             to == IF new.total = M!Unanswered THEN end.total ELSE new.total
             by == IF old.at = "write" /\ new.pos = old.pos + 1 THEN Append(end.bytes, new.pos)
                   ELSE end.bytes
             s == [end EXCEPT !.state = st, !.total = to, !.bytes = by]
  <1>1. end.state \in {"closed", "sent", "answered", "over", "lost"}
        /\ end.total \in Nat /\ end.bytes \in Seq(Nat)
    BY DEF C!Connection
  <1>2. new.at \in {"backlog", "queued", "loop", "write", "release", "closed"}
        /\ new.total \in Nat \cup {M!Unanswered} /\ new.pos \in Nat
    BY DEF M!Line
  <1>3. /\ st \in {"closed", "sent", "answered", "over", "lost"}
        /\ new.at = "closed" /\ new.total = M!Unanswered => st = "lost"
        /\ new.at = "closed" /\ new.total # M!Unanswered => st = "over"
        /\ new.at \in {"loop", "write", "release"} => st = "answered"
        /\ new.at \in {"backlog", "queued"} => st = end.state
    BY <1>1, <1>2
  <1>4. to \in Nat /\ (new.total # M!Unanswered => to = new.total)
    BY <1>1, <1>2
  <1>5. /\ by \in Seq(Nat)
        /\ old.at = "write" /\ new.pos = old.pos + 1 => by = Append(end.bytes, new.pos)
        /\ ~(old.at = "write" /\ new.pos = old.pos + 1) => by = end.bytes
    BY <1>1, <1>2, AppendProperties
  <1>6. /\ end.state = "lost" => Seen(end, old, new) = end
        /\ end.state # "lost" => Seen(end, old, new) = s
    BY DEF Seen
  <1> HIDE DEF st, to, by
  <1>7. s \in C!Connection /\ s.range = end.range /\ s.state = st /\ s.total = to /\ s.bytes = by
    BY <1>3, <1>4, <1>5 DEF C!Connection
  <1> HIDE DEF s
  <1> QED
    BY <1>3, <1>4, <1>5, <1>6, <1>7
\* A file whose connection goes on.
LEMMA FileSees ==
  ASSUME IInv, NEW f \in File, NEW c \in DOMAIN line, link[f] = c, Turned(c),
         conn'[f] = Seen(conn[f], line[c], line'[c]),
         UNCHANGED <<disk, cache, job, callVars, torn, joint>>
  PROVE  conn'[f] \in C!Connection /\ FileOK(f)' /\ (~torn' => ByteOK(f)')
  <1> DEFINE e == conn[f]
             s == conn'[f]
             l == line[c]
             n == line'[c]
  <1>1. /\ e \in C!Connection /\ l \in M!Line /\ n \in M!Line /\ Turns(l, n)
        /\ disk[f] \in {NoFile} \cup Seq(Nat) /\ Size[f] \in Nat
        /\ FileOK(f) /\ (~torn => ByteOK(f)) /\ c # 0
    <2>1. line' \in Seq(M!Line) /\ c \in DOMAIN line'
      BY DEF Turned, M!TypeOK
    <2>2. line'[c] \in M!Line
      BY <2>1, ElementOfSeq, LenProperties
    <2> QED
      BY <2>2, ConnFacts, FileFacts, LenProperties DEF Turned
  <1>2. /\ s \in C!Connection /\ s.range = e.range
        /\ e.state = "lost" => s = e
        /\ e.state # "lost" =>
             /\ n.at = "closed" => s.state \in {"lost", "over"}
             /\ n.at \in {"loop", "write", "release"} => s.state = "answered"
             /\ n.at \in {"backlog", "queued"} => s.state = e.state
             /\ n.total # M!Unanswered => s.total = n.total
             /\ n.at = "closed" /\ n.total # M!Unanswered => s.state = "over"
             /\ l.at = "write" /\ n.pos = l.pos + 1 => s.bytes = Append(e.bytes, n.pos)
             /\ ~(l.at = "write" /\ n.pos = l.pos + 1) => s.bytes = e.bytes
    <2> DEFINE t == Seen(e, l, n)
    <2>1. /\ t \in C!Connection /\ t.range = e.range
          /\ e.state = "lost" => t = e
          /\ e.state # "lost" =>
               /\ n.at = "closed" /\ n.total = M!Unanswered => t.state = "lost"
               /\ n.at = "closed" /\ n.total # M!Unanswered => t.state = "over"
               /\ n.at \in {"loop", "write", "release"} => t.state = "answered"
               /\ n.at \in {"backlog", "queued"} => t.state = e.state
               /\ n.total # M!Unanswered => t.total = n.total
               /\ l.at = "write" /\ n.pos = l.pos + 1 => t.bytes = Append(e.bytes, n.pos)
               /\ ~(l.at = "write" /\ n.pos = l.pos + 1) => t.bytes = e.bytes
      <3> HIDE DEF e, l, n
      <3> QED
        BY <1>1, SeenFacts
    <2>2. s = t
      OBVIOUS
    <2> HIDE DEF t, e, s, l, n
    <2> QED
      BY <2>1, <2>2
  <1>3. e.state \in {"closed", "sent", "answered", "over", "lost"}
        /\ n.at \in {"backlog", "queued", "loop", "write", "release", "closed"}
        /\ l.at \in {"backlog", "queued", "loop", "write", "release", "closed"}
        /\ e.bytes \in Seq(Nat) /\ l.pos \in Nat /\ n.pos \in Nat
    BY <1>1 DEF C!Connection, M!Line
  <1>4. Active(f) /\ e.state # "closed"
    BY <1>1 DEF FileOK
  <1>5. s.state # "closed"
    BY <1>2, <1>3, <1>4
  <1>6. FileOK(f)'
    <2>1. C!Listed' = C!Listed /\ (Active(f)' <=> Active(f)) /\ (Has(f)' <=> Has(f))
      BY DEF C!Listed, Active, Has, joint
    <2> QED
      BY <1>1, <1>4, <1>5, <2>1 DEF FileOK, callVars, joint
  <1>7. ASSUME ~torn PROVE ByteOK(f)'
    <2>1. ByteOK(f) /\ Has(f)
      BY <1>1, <1>4, <1>7 DEF FileOK
    <2>2. disk[f] \in Seq(Nat) /\ Len(disk[f]) \in Nat
      BY <1>1, <2>1, LenProperties DEF Has
    <2>3. Beginning(f)'
      BY <2>1 DEF ByteOK, Beginning, Has
    <2>4. Fetched(f)'
      BY <2>1 DEF ByteOK, Fetched, Complete, Has, C!Listed, callVars, joint
    <2>5. l.file = f /\ n.file = f
      BY <1>1, <2>1 DEF ByteOK, Answered, Turns
    <2>6. CASE e.state = "lost"
      BY <1>2, <2>1, <2>3, <2>4, <2>5, <2>6
      DEF ByteOK, Following, Active, Asked, Answered, joint
    <2>7. CASE e.state = "sent"
      <3>1. /\ e.bytes = <<>> /\ job[f].pc = "receive" /\ M!Begin(e) = Len(disk[f])
            /\ l.at \in {"backlog", "queued"} /\ M!Begin(l) = Len(disk[f])
        BY <1>1, <2>1, <2>7 DEF ByteOK, Asked, Answered, M!Begin
      <3>2. s.bytes = <<>>
        BY <1>2, <2>7, <3>1
      <3>3. Len(s.bytes) = 0 /\ Following(f)'
        BY <1>4, <2>1, <3>1, <3>2, EmptySeq DEF ByteOK, Following, Active
      <3>4. CASE n.at = "closed"
        <4>1. s.state \in {"lost", "over"}
          BY <1>2, <2>7, <3>4
        <4> QED
          BY <1>1, <2>3, <2>4, <2>5, <3>3, <3>4, <4>1 DEF ByteOK, Asked, Answered, joint
      <3>5. CASE n.at = "loop"
        <4>1. s.state = "answered" /\ n.total = Size[f] /\ n.pos = Len(disk[f])
              /\ s.total = Size[f]
          BY <1>1, <1>2, <2>5, <2>7, <3>1, <3>5 DEF Turns, M!Unanswered
        <4> QED
          BY <1>1, <2>2, <2>3, <2>4, <2>5, <3>3, <3>5, <4>1 DEF ByteOK, Asked, Answered, joint
      <3> QED
        BY <1>1, <3>1, <3>4, <3>5 DEF Turns
    <2>8. CASE e.state = "answered"
      <3>1. /\ l.at \in {"loop", "write", "release"} /\ l.total = Size[f] /\ e.total = Size[f]
            /\ l.pos = Len(disk[f]) + Len(e.bytes)
            /\ \A i \in DOMAIN e.bytes : e.bytes[i] = Len(disk[f]) + i
            /\ Len(disk[f]) + Len(e.bytes) <= Size[f]
            /\ job[f].got <= Len(disk[f]) /\ (job[f].finished => Len(disk[f]) = Size[f])
        BY <1>1, <1>4, <2>1, <2>8 DEF ByteOK, Answered, Following
      <3>2. n.total = Size[f] /\ s.total = Size[f]
        <4>1. n.total = Size[f]
          BY <1>1, <3>1 DEF Turns
        <4> QED
          BY <1>1, <1>2, <2>8, <4>1 DEF M!Unanswered
      <3>3. /\ n.at # "closed" => n.pos = Len(disk[f]) + Len(s.bytes)
            /\ Len(disk[f]) + Len(s.bytes) <= Size[f]
            /\ \A i \in DOMAIN s.bytes : s.bytes[i] = Len(disk[f]) + i
        <4> HIDE DEF e, s, l, n
        <4>1. CASE l.at = "write" /\ n.pos = l.pos + 1
          <5>1. s.bytes = Append(e.bytes, n.pos)
            BY <1>2, <2>8, <4>1
          <5>2. /\ Len(s.bytes) = Len(e.bytes) + 1 /\ DOMAIN s.bytes = 1 .. Len(e.bytes) + 1
                /\ \A i \in 1 .. Len(e.bytes) : s.bytes[i] = e.bytes[i]
                /\ s.bytes[Len(e.bytes) + 1] = n.pos
                /\ Len(e.bytes) \in Nat /\ DOMAIN e.bytes = 1 .. Len(e.bytes)
            BY <1>3, <5>1, AppendProperties, LenProperties
          <5>3. n.pos <= Size[f]
            BY <1>1, <1>3, <2>5, <4>1 DEF Turns
          <5>4. n.pos = Len(disk[f]) + Len(e.bytes) + 1
            BY <2>2, <3>1, <4>1, <5>2
          <5>5. PICK k \in Nat, d \in Nat : k = Len(e.bytes) /\ d = Len(disk[f])
            BY <2>2, <5>2
          <5>6. /\ Len(s.bytes) = k + 1 /\ DOMAIN s.bytes = 1 .. k + 1
                /\ s.bytes[k + 1] = d + k + 1 /\ n.pos = d + (k + 1)
                /\ \A i \in 1 .. k : s.bytes[i] = d + i
            <6>1. n.pos = d + k + 1
              BY <5>4, <5>5
            <6>2. Len(s.bytes) = k + 1 /\ DOMAIN s.bytes = 1 .. k + 1 /\ s.bytes[k + 1] = n.pos
              BY <5>2, <5>5
            <6>3. \A i \in 1 .. k : s.bytes[i] = d + i
              BY <3>1, <5>2, <5>5
            <6> QED
              BY <6>1, <6>2, <6>3
          <5>7. \A i \in 1 .. k + 1 : s.bytes[i] = d + i
            BY <5>6
          <5> QED
            BY <5>3, <5>5, <5>6, <5>7
        <4>2. CASE ~(l.at = "write" /\ n.pos = l.pos + 1)
          <5>1. s.bytes = e.bytes
            BY <1>2, <2>8, <4>2
          <5>2. n.at # "closed" => n.pos = l.pos
            BY <1>1, <1>3, <3>1, <4>2 DEF Turns
          <5> QED
            BY <3>1, <5>1, <5>2
        <4> QED
          BY <4>1, <4>2
      <3>4. Following(f)'
        BY <1>4, <3>1, <3>2, <3>3 DEF Following, Active
      <3>5. \/ s.state = "answered" /\ n.at \in {"loop", "write", "release"}
            \/ s.state = "over" /\ n.at = "closed"
        <4>1. n.at \in {"loop", "write", "release", "closed"}
          BY <1>1, <3>1 DEF Turns
        <4>2. n.total # M!Unanswered
          BY <1>1, <3>2 DEF M!Unanswered
        <4> QED
          BY <1>2, <2>8, <4>1, <4>2
      <3> QED
        BY <1>1, <2>3, <2>4, <2>5, <3>2, <3>3, <3>4, <3>5 DEF ByteOK, Asked, Answered, joint
    <2>9. CASE e.state = "over"
      BY <1>1, <2>1, <2>9 DEF ByteOK, Answered, Turns
    <2> QED
      BY <1>3, <1>4, <2>6, <2>7, <2>8, <2>9
  <1> QED
    BY <1>2, <1>6, <1>7
LEMMA ConnStepKeeps ==
  ASSUME IInv, NEW c \in DOMAIN line, ConnStep(c)
  PROVE  IInv'
  <1>1. /\ UNCHANGED <<disk, cache, job, call, urls, times, stop, outcome, status, counts, torn,
                       order, link>>
        /\ conn' = [f \in File |->
                     IF link[f] = c THEN Seen(conn[f], line[c], line'[c]) ELSE conn[f]]
    BY DEF ConnStep, joint, callVars
  <1>2. Turned(c)
    BY <1>1, ConnTurns DEF ConnStep
  <1>3. ASSUME NEW f \in File
        PROVE  conn'[f] \in C!Connection /\ FileOK(f)' /\ (~torn' => ByteOK(f)')
    <2>1. CASE link[f] = c
      BY <1>1, <1>2, <2>1, FileSees DEF joint, callVars
    <2>2. CASE link[f] # c
      <3>1. conn'[f] = conn[f] /\ conn[f] \in C!Connection
            /\ FileOK(f) /\ (~torn => ByteOK(f))
        BY <1>1, <2>2, FileFacts
      <3>2. C!Listed' = C!Listed /\ (Active(f)' <=> Active(f)) /\ (Has(f)' <=> Has(f))
        BY <1>1 DEF C!Listed, Active, Has
      <3>3. FileOK(f)'
        BY <1>1, <3>1, <3>2 DEF FileOK
      <3>4. link[f] # 0 => line'[link[f]] = line[link[f]]
        BY <1>2, <2>2, FileFacts DEF Turned
      <3>5. ASSUME ~torn PROVE ByteOK(f)'
        <4>1. Beginning(f)' /\ Following(f)' /\ Asked(f)' /\ Fetched(f)'
          BY <1>1, <3>1, <3>2, <3>5
          DEF ByteOK, Beginning, Following, Asked, Fetched, Complete, M!Begin
        <4>2. Answered(f)'
          BY <1>1, <3>1, <3>4, <3>5 DEF ByteOK, Answered
        <4> QED
          BY <4>1, <4>2 DEF ByteOK
      <3> QED
        BY <1>1, <3>1, <3>3, <3>5
    <2> QED
      BY <2>1, <2>2
  <1>4. C!TypeOK'
    <2>1. C!TypeOK /\ C!Listed' = C!Listed
      BY <1>1 DEF IInv, TypeOK, C!Listed
    <2>2. conn' \in [File -> C!Connection]
      BY <1>1, <1>3
    <2> QED
      BY <1>1, <2>1, <2>2 DEF C!TypeOK
  <1>5. TypeOK'
    BY <1>1, <1>2, <1>4 DEF IInv, TypeOK, Turned
  <1>6. CallOK'
    BY <1>1 DEF IInv, CallOK, C!Repeats
  <1> QED
    BY <1>2, <1>3, <1>5, <1>6 DEF IInv, Turned

-----------------------------------------------------------------------------
(* What stays as it is. *)

\* All but whether the client still listens.
Alike(old, new) ==
  /\ new.file = old.file /\ new.range = old.range /\ new.at = old.at
  /\ new.total = old.total /\ new.pos = old.pos /\ new.end = old.end
  /\ new.finished = old.finished /\ new.success = old.success

\* The client's end of a connection is closed: the server goes on.
LEMMA ServerStays ==
  ASSUME IInv, UNCHANGED <<master, order>>, DOMAIN line' = DOMAIN line,
         line' = [c \in DOMAIN line |-> line'[c]],
         \A c \in DOMAIN line :
           line'[c] = line[c] \/ line'[c] = [line[c] EXCEPT !.open = FALSE]
  PROVE  /\ M!TypeOK' /\ ServerOK' /\ Len(line') = Len(line)
         /\ \A c \in DOMAIN line : Alike(line[c], line'[c])
  <1>1. ASSUME NEW c \in DOMAIN line
        PROVE  line'[c] \in M!Line /\ Alike(line[c], line'[c])
    <2> DEFINE x == line[c]
    <2>1. x \in M!Line /\ (line'[c] = x \/ line'[c] = [x EXCEPT !.open = FALSE])
      BY ConnFacts
    <2> HIDE DEF x
    <2>2. line'[c] \in M!Line /\ Alike(x, line'[c])
      BY <2>1 DEF M!Line, Alike
    <2> QED
      BY <2>2 DEF x
  <1>2. line \in Seq(M!Line) /\ M!TypeOK /\ ServerOK
    BY DEF IInv, TypeOK, M!TypeOK
  <1>3. DOMAIN line = 1 .. Len(line) /\ Len(line) \in Nat
    BY <1>2, LenProperties
  <1>4. line' \in [1 .. Len(line) -> M!Line]
    BY <1>1, <1>3
  <1>5. line' \in Seq(M!Line) /\ Len(line') = Len(line)
    BY <1>3, <1>4, SeqDef, LenProperties
  <1>6. M!Files' = M!Files
    BY DEF M!Files
  <1>7. UNCHANGED <<worker, handle, running, socket, ready, mstatus, murls, stopper,
                    offered, faults>>
    BY DEF master
  <1>8. M!TypeOK'
    BY <1>2, <1>5, <1>6, <1>7 DEF M!TypeOK
  <1>9. \A c \in DOMAIN line' : LineOK(line[c])'
    <2> SUFFICES ASSUME NEW c \in DOMAIN line PROVE LineOK(line[c])'
      OBVIOUS
    <2>1. LineOK(line[c]) /\ Alike(line[c], line'[c])
      BY <1>1, <1>2 DEF ServerOK
    <2> QED
      BY <1>6, <1>7, <2>1 DEF LineOK, Alike
  <1>10. /\ worker' \notin {"accept", "drain"} =>
              \A c \in DOMAIN line' : line'[c].at \in {"backlog", "closed"}
         /\ line' # <<>> => line # <<>>
    <2>1. \A c \in DOMAIN line : line'[c].at = line[c].at
      BY <1>1 DEF Alike
    <2> QED
      BY <1>2, <1>5, <1>7, <2>1, EmptySeq, LenProperties DEF ServerOK
  <1> QED
    BY <1>1, <1>2, <1>5, <1>6, <1>7, <1>8, <1>9, <1>10 DEF ServerOK

\* The client closes connections.
LEMMA HungUp ==
  ASSUME IInv, HangUp
  PROVE  /\ M!TypeOK' /\ ServerOK' /\ order' = order
         /\ \A c \in DOMAIN line : Alike(line[c], line'[c])
         /\ link' \in [File -> Nat] /\ \A f \in File : link'[f] <= Len(line')
         /\ \A f \in File :
              /\ conn'[f].state = "closed" => link'[f] = 0
              /\ conn'[f].state # "closed" => link'[f] = link[f]
  <1>1. line' = [c \in DOMAIN line |->
          IF \E f \in File : link[f] = c /\ conn'[f].state = "closed"
          THEN [line[c] EXCEPT !.open = FALSE] ELSE line[c]]
    BY DEF HangUp
  <1>2. /\ DOMAIN line' = DOMAIN line /\ line' = [c \in DOMAIN line |-> line'[c]]
        /\ \A c \in DOMAIN line :
             line'[c] = line[c] \/ line'[c] = [line[c] EXCEPT !.open = FALSE]
    BY <1>1
  <1>3. /\ M!TypeOK' /\ ServerOK' /\ Len(line') = Len(line)
        /\ \A c \in DOMAIN line : Alike(line[c], line'[c])
    BY <1>2, ServerStays DEF HangUp
  <1>4. link \in [File -> Nat] /\ (\A f \in File : link[f] <= Len(line)) /\ Len(line) \in Nat
    BY LenProperties DEF IInv, TypeOK, M!TypeOK
  <1>5. link' = [f \in File |-> IF conn'[f].state = "closed" THEN 0 ELSE link[f]]
        /\ order' = order
    BY DEF HangUp
  <1> QED
    BY <1>3, <1>4, <1>5
\* A connection at the server's end that is still there for its file.
Kept(old, new) ==
  /\ new.file = old.file /\ new.range = old.range
  /\ new.total = old.total /\ new.pos = old.pos
  /\ new.at = old.at \/ (old.at = "backlog" /\ new.at = "queued")

\* A file of which nothing changes.
LEMMA FileStays ==
  ASSUME IInv, NEW f \in File,
         disk'[f] = disk[f], cache'[f] = cache[f], conn'[f] = conn[f], job'[f] = job[f],
         link'[f] = link[f], order' = order, ~torn' => ~torn,
         link[f] # 0 => Kept(line[link[f]], line'[link[f]]),
         Active(f) => call' \in {"enqueued", "joining"},
         f \in C!Listed /\ call' # "idle" /\ Url[f] \notin urls' =>
           call # "idle" /\ Url[f] \notin urls,
         outcome' = "done" /\ ~torn => Fetched(f)'
  PROVE  FileOK(f)' /\ (~torn' => ByteOK(f)')
  <1>1. FileOK(f) /\ (~torn => ByteOK(f))
    BY FileFacts
  <1>2. C!Listed' = C!Listed /\ (Active(f)' <=> Active(f)) /\ (Has(f)' <=> Has(f))
    BY DEF C!Listed, Active, Has
  <1>3. FileOK(f)'
    BY <1>1, <1>2 DEF FileOK
  <1>4. ASSUME ~torn PROVE ByteOK(f)'
    <2>1. Beginning(f)' /\ Following(f)' /\ Asked(f)'
      BY <1>1, <1>2, <1>4 DEF ByteOK, Beginning, Following, Asked, M!Begin
    <2>2. Answered(f)'
      BY <1>1, <1>4 DEF ByteOK, Answered, Kept
    <2>3. Fetched(f)'
      <3>1. CASE outcome' = "done"
        BY <1>4, <3>1
      <3>2. CASE outcome' # "done"
        BY <1>1, <1>2, <1>4, <3>2 DEF ByteOK, Fetched, Complete
      <3> QED
        BY <3>1, <3>2
    <2> QED
      BY <2>1, <2>2, <2>3 DEF ByteOK
  <1> QED
    BY <1>3, <1>4

\* A file that has no connection.
LEMMA FileLeaves ==
  ASSUME NEW f \in File, conn'[f].state = "closed", link'[f] = 0,
         job'[f].pc \notin {"receive", "flush", "progress"},
         cache'[f] # NoFile => disk'[f] # NoFile /\ Len(disk'[f]) >= cache'[f],
         ~torn' => Beginning(f)' /\ Fetched(f)'
  PROVE  FileOK(f)' /\ (~torn' => ByteOK(f)')
  <1>1. ~Active(f)' /\ (Has(f)' <=> disk'[f] # NoFile)
    BY DEF Active, Has
  <1>2. FileOK(f)'
    BY <1>1 DEF FileOK
  <1>3. Following(f)' /\ Asked(f)' /\ Answered(f)'
    BY <1>1 DEF Following, Asked, Answered
  <1> QED
    BY <1>2, <1>3 DEF ByteOK

\* Listed files have urls of their own while jobs are under way.
LEMMA OwnUrls ==
  ASSUME IInv, NEW f \in C!Listed, NEW g \in C!Listed, f # g,
         call \in {"enqueued", "joining"}
  PROVE  Url[f] # Url[g]
  <1>1. PICK i \in DOMAIN order, k \in DOMAIN order : order[i] = f /\ order[k] = g
    BY DEF C!Listed
  <1> QED
    BY <1>1 DEF IInv, CallOK, C!Repeats

\* A step of one job.
LEMMA OneFile ==
  ASSUME IInv, HangUp, NEW f \in File, f \in C!Listed, call \in {"enqueued", "joining"},
         NEW d \in {NoFile} \cup Seq(Nat), NEW b \in {NoFile} \cup Nat,
         NEW e \in C!Connection, NEW j \in C!Fetch,
         disk' = [disk EXCEPT ![f] = d], cache' = [cache EXCEPT ![f] = b],
         conn' = [conn EXCEPT ![f] = e], job' = [job EXCEPT ![f] = j],
         UNCHANGED <<call, times, stop, outcome>>,
         urls' = urls \/ urls' = urls \ {Url[f]},
         status' \in {"SUCCEED", "FAILED", "CANCELED"},
         torn' \in BOOLEAN, ~torn' => ~torn,
         FileOK(f)' /\ (~torn' => ByteOK(f)')
  PROVE  IInv'
  <1>1. C!TypeOK /\ M!TypeOK /\ CallOK
    BY DEF IInv, TypeOK
  <1>2. /\ M!TypeOK' /\ ServerOK' /\ order' = order
        /\ \A c \in DOMAIN line : Alike(line[c], line'[c])
        /\ link' \in [File -> Nat] /\ \A g \in File : link'[g] <= Len(line')
        /\ \A g \in File :
             /\ conn'[g].state = "closed" => link'[g] = 0
             /\ conn'[g].state # "closed" => link'[g] = link[g]
    BY HungUp
  <1>3. C!Listed' = C!Listed
    BY <1>2 DEF C!Listed
  <1>4. C!TypeOK'
    BY <1>1, <1>3 DEF C!TypeOK
  <1>5. CallOK'
    <2>1. call' = "returned" => FALSE
      OBVIOUS
    <2> QED
      BY <1>1, <1>2, <2>1 DEF CallOK, C!Repeats
  <1>6. ASSUME NEW g \in File, g # f
        PROVE  FileOK(g)' /\ (~torn' => ByteOK(g)')
    <2>1. disk'[g] = disk[g] /\ cache'[g] = cache[g] /\ conn'[g] = conn[g] /\ job'[g] = job[g]
      BY <1>1, <1>6 DEF C!TypeOK
    <2>2. link'[g] = link[g]
      BY <1>2, <2>1, FileFacts DEF FileOK
    <2>3. link[g] # 0 => Kept(line[link[g]], line'[link[g]])
      BY <1>2, FileFacts DEF Kept, Alike
    <2>4. g \in C!Listed /\ Url[g] \notin urls' => Url[g] \notin urls
      BY <1>6, OwnUrls
    <2>5. outcome' # "done"
      BY <1>1 DEF CallOK
    <2> QED
      BY <1>2, <2>1, <2>2, <2>3, <2>4, <2>5, FileStays, FileFacts
  <1>7. TypeOK'
    BY <1>2, <1>4 DEF IInv, TypeOK
  <1> QED
    BY <1>2, <1>5, <1>6, <1>7 DEF IInv
-----------------------------------------------------------------------------
(* The steps of a job. *)

\* What is known of a job that is about to begin, or has begun.
LEMMA JobFacts ==
  ASSUME IInv, NEW f \in File, C!Next1(f) \/ Active(f)
  PROVE  /\ f \in C!Listed /\ call \in {"enqueued", "joining"} /\ outcome # "done"
         /\ disk[f] \in {NoFile} \cup Seq(Nat) /\ cache[f] \in {NoFile} \cup Nat
         /\ conn[f] \in C!Connection /\ job[f] \in C!Fetch
         /\ FileOK(f) /\ (~torn => ByteOK(f)) /\ Size[f] \in Nat
         /\ urls \subseteq {Url[g] : g \in C!Listed}
         /\ status \in {"SUCCEED", "FAILED", "CANCELED"} /\ torn \in BOOLEAN
         /\ C!Checked \in {"SUCCEED", "FAILED", "CANCELED"}
         /\ disk = [disk EXCEPT ![f] = disk[f]] /\ cache = [cache EXCEPT ![f] = cache[f]]
         /\ conn = [conn EXCEPT ![f] = conn[f]]
         /\ f \in DOMAIN disk /\ f \in DOMAIN cache /\ f \in DOMAIN conn /\ f \in DOMAIN job
  <1>1. f \in C!Listed /\ call \in {"enqueued", "joining"}
    <2>1. CASE C!Next1(f)
      BY <2>1 DEF C!Next1, C!Listed
    <2>2. CASE Active(f)
      BY <2>2, FileFacts DEF FileOK
    <2> QED
      BY <2>1, <2>2
  <1>2. outcome # "done"
    BY <1>1 DEF IInv, CallOK
  <1>3. C!TypeOK
    BY DEF IInv, TypeOK
  <1>4. C!Checked \in {"SUCCEED", "FAILED", "CANCELED"}
    BY <1>3 DEF C!TypeOK, C!Checked
  <1>5. disk = [disk EXCEPT ![f] = disk[f]] /\ cache = [cache EXCEPT ![f] = cache[f]]
        /\ conn = [conn EXCEPT ![f] = conn[f]]
    BY <1>3 DEF C!TypeOK
  <1> QED
    BY <1>1, <1>2, <1>3, <1>4, <1>5, FileFacts DEF C!TypeOK

\* The job sends its request: what is there then is where the answer is to begin.
LEMMA JobAsks ==
  ASSUME IInv, HangUp, NEW f \in File, C!Next1(f),
         NEW d \in Seq(Nat), NEW range \in Nat \cup {C!NoRange}, NEW j \in C!Fetch,
         disk' = [disk EXCEPT ![f] = d], cache' = [cache EXCEPT ![f] = 0],
         C!Get(f, range, j), j.pc = "receive", j.current <= Len(d), j.got = 0,
         UNCHANGED <<call, times, stop, outcome, status>>,
         urls' = urls \/ urls' = urls \ {Url[f]},
         torn' \in BOOLEAN,
         ~torn' => /\ ~torn /\ Len(d) <= Size[f] /\ \A i \in DOMAIN d : d[i] = i
                   /\ range = C!NoRange => Len(d) = 0
                   /\ range # C!NoRange => range = Len(d)
                   /\ j.finished => Len(d) = Size[f]
                   /\ urls' # urls => Len(d) = Size[f]
  PROVE  IInv'
  <1> DEFINE e == [C!Closed EXCEPT !.state = "sent", !.range = range]
  <1>1. /\ e \in C!Connection /\ e.state = "sent" /\ e.range = range /\ e.bytes = <<>>
    BY EmptySeq DEF C!Closed, C!Connection
  <1>2. conn' = [conn EXCEPT ![f] = e] /\ job' = [job EXCEPT ![f] = j]
    BY DEF C!Get
  <1> HIDE DEF e
  <1>3. disk'[f] = d /\ cache'[f] = 0 /\ conn'[f] = e /\ job'[f] = j
    BY <1>2, JobFacts
  <1>4. Len(d) \in Nat /\ d # NoFile
    BY LenProperties, TransferAssumption
  <1>5. Active(f)' /\ Has(f)' /\ C!Listed' = C!Listed
    BY <1>3, <1>4, HungUp DEF Active, Has, C!Listed
  <1>6. link'[f] = 0
    <2>1. ~Active(f) /\ FileOK(f)
      BY JobFacts DEF C!Next1, Active
    <2> QED
      BY <1>1, <1>3, <2>1, HungUp DEF FileOK
  <1>7. FileOK(f)'
    BY <1>1, <1>3, <1>4, <1>5, <1>6, JobFacts DEF FileOK
  <1>8. ASSUME ~torn' PROVE ByteOK(f)'
    <2>1. Beginning(f)'
      BY <1>3, <1>8 DEF Beginning
    <2>2. Following(f)'
      <3>1. Len(<<>>) = 0 /\ DOMAIN <<>> = {}
        BY EmptySeq
      <3>2. Size[f] \in Nat
        BY JobFacts
      <3>3. Len(d) + Len(e.bytes) <= Size[f] /\ j.got <= Len(d)
        BY <1>1, <1>4, <1>8, <3>1, <3>2
      <3>4. \A i \in DOMAIN e.bytes : e.bytes[i] = Len(d) + i
        BY <1>1, <3>1
      <3>5. j.finished => Len(d) = Size[f]
        BY <1>8
      <3> QED
        BY <1>1, <1>3, <3>3, <3>4, <3>5 DEF Following
    <2>3. Asked(f)'
      BY <1>1, <1>3, <1>8 DEF Asked, M!Begin, M!NoRange, C!NoRange
    <2>4. Answered(f)'
      BY <1>1, <1>3, <1>6 DEF Answered
    <2>5. Fetched(f)'
      <3>1. job[f].pc = "queued" /\ call # "idle" /\ ByteOK(f)
        BY <1>8, JobFacts DEF C!Next1
      <3>2. Url[f] \in urls
        BY <3>1, JobFacts DEF ByteOK, Fetched
      <3>3. Url[f] \notin urls' => Complete(f)'
        BY <1>3, <1>5, <1>8, <3>2 DEF Complete
      <3> QED
        BY <1>3, <3>3, JobFacts DEF Fetched
    <2> QED
      BY <2>1, <2>2, <2>3, <2>4, <2>5 DEF ByteOK
  <1>9. ~torn' => ~torn
    OBVIOUS
  <1>10. status' \in {"SUCCEED", "FAILED", "CANCELED"}
    BY JobFacts
  <1> QED
    <2>1. 0 \in {NoFile} \cup Nat /\ d \in {NoFile} \cup Seq(Nat)
          /\ f \in C!Listed /\ call \in {"enqueued", "joining"}
      BY JobFacts
    <2> QED
      BY <1>1, <1>2, <1>7, <1>8, <1>9, <1>10, <2>1, OneFile

LEMMA ResumeKeeps ==
  ASSUME IInv, HangUp, NEW f \in File, C!Resume(f)
  PROVE  IInv'
  <1>1. /\ C!Next1(f) /\ cache[f] # NoFile
        /\ disk' = [disk EXCEPT ![f] = C!Opened(f)] /\ cache' = [cache EXCEPT ![f] = 0]
        /\ torn' = (torn \/ Len(C!Opened(f)) # cache[f])
        /\ UNCHANGED <<call, urls, times, stop, outcome, status>>
    BY DEF C!Resume, C!callVars
  <1> DEFINE j == [C!Queued EXCEPT !.pc = "receive", !.offset = cache[f], !.current = cache[f]]
  <1>2. C!Get(f, cache[f], j)
    BY DEF C!Resume
  <1>3. cache[f] \in Nat /\ Has(f) /\ C!Opened(f) = disk[f] /\ disk[f] \in Seq(Nat)
        /\ Len(disk[f]) >= cache[f]
    BY <1>1, JobFacts DEF FileOK, Has, C!Opened
  <1>4. j \in C!Fetch /\ j.pc = "receive" /\ j.current = cache[f] /\ j.got = 0 /\ ~j.finished
    BY <1>3 DEF C!Queued, C!Fetch
  <1> HIDE DEF j
  <1>5. Len(disk[f]) \in Nat
    BY <1>3, LenProperties
  <1>6. torn' \in BOOLEAN
    BY <1>1, <1>3, JobFacts
  <1>7. ASSUME ~torn'
        PROVE  /\ ~torn /\ Len(disk[f]) <= Size[f] /\ \A i \in DOMAIN disk[f] : disk[f][i] = i
               /\ cache[f] # C!NoRange /\ cache[f] = Len(disk[f])
    <2>1. ~torn /\ Len(disk[f]) = cache[f]
      BY <1>1, <1>3, <1>7
    <2> QED
      BY <1>1, <1>3, <2>1, JobFacts DEF ByteOK, Beginning, C!NoRange
  <1> QED
    BY <1>1, <1>2, <1>3, <1>4, <1>5, <1>6, <1>7, JobAsks

LEMMA OpenKeeps ==
  ASSUME IInv, HangUp, NEW f \in File, C!Open(f)
  PROVE  IInv'
  <1>1. /\ C!Next1(f) /\ cache' = [cache EXCEPT ![f] = 0]
        /\ UNCHANGED <<call, times, stop, outcome, status, torn>>
    BY DEF C!Open
  <1>2. CASE /\ C!Exists(f)
             /\ C!Get(f, Size[f], [C!Queued EXCEPT !.pc = "receive", !.finished = TRUE,
                                                   !.exists = TRUE])
             /\ disk' = disk /\ urls' = urls \ {Url[f]}
    <2>1. disk[f] \in Seq(Nat) /\ Len(disk[f]) = Size[f] /\ Has(f) /\ Size[f] \in Nat
          /\ disk' = [disk EXCEPT ![f] = disk[f]]
      BY <1>1, <1>2, JobFacts DEF C!Exists, Has
    <2> DEFINE j == [C!Queued EXCEPT !.pc = "receive", !.finished = TRUE, !.exists = TRUE]
    <2>2. j \in C!Fetch /\ j.pc = "receive" /\ j.current = 0 /\ j.got = 0
      BY DEF C!Queued, C!Fetch
    <2>3. C!Get(f, Size[f], j)
      BY <1>2
    <2> HIDE DEF j
    <2>4. ASSUME ~torn'
          PROVE  /\ ~torn /\ Len(disk[f]) <= Size[f] /\ \A i \in DOMAIN disk[f] : disk[f][i] = i
                 /\ Size[f] # C!NoRange /\ Size[f] = Len(disk[f])
                 /\ (j.finished => Len(disk[f]) = Size[f])
      BY <1>1, <2>1, <2>4, JobFacts DEF ByteOK, Beginning, C!NoRange
    <2>5. torn' \in BOOLEAN
      BY <1>1, JobFacts
    <2>6. j.current <= Len(disk[f]) /\ Size[f] \in Nat \cup {C!NoRange}
      BY <2>1, <2>2
    <2>7. urls' = urls \ {Url[f]}
      BY <1>2
    <2> QED
      BY <1>1, <2>1, <2>2, <2>3, <2>4, <2>5, <2>6, <2>7, JobAsks
  <1>3. CASE /\ C!Get(f, C!NoRange, [C!Queued EXCEPT !.pc = "receive"])
             /\ disk' = C!Recreated(f) /\ urls' = urls
    <2> DEFINE j == [C!Queued EXCEPT !.pc = "receive"]
    <2>1. j \in C!Fetch /\ j.pc = "receive" /\ j.current = 0 /\ j.got = 0 /\ ~j.finished
      BY DEF C!Queued, C!Fetch
    <2>2. C!Get(f, C!NoRange, j) /\ disk' = [disk EXCEPT ![f] = <<>>]
      BY <1>3 DEF C!Recreated
    <2> HIDE DEF j
    <2>3. <<>> \in Seq(Nat) /\ Len(<<>>) = 0 /\ DOMAIN <<>> = {}
      BY EmptySeq
    <2>4. torn' \in BOOLEAN /\ Size[f] \in Nat /\ urls' = urls
          /\ C!NoRange \in Nat \cup {C!NoRange} /\ j.current <= Len(<<>>)
      BY <1>1, <1>3, <2>1, <2>3, JobFacts
    <2>5. ASSUME ~torn'
          PROVE  /\ ~torn /\ Len(<<>>) <= Size[f] /\ \A i \in DOMAIN <<>> : <<>>[i] = i
                 /\ Len(<<>>) = 0 /\ (j.finished => Len(<<>>) = Size[f])
      BY <1>1, <2>1, <2>3, <2>4, <2>5
    <2> QED
      BY <1>1, <2>1, <2>2, <2>3, <2>4, <2>5, JobAsks
  <1> QED
    BY <1>2, <1>3 DEF C!Open
\* The job is over: its url is done with only when all is there.
LEMMA JobLeaves ==
  ASSUME IInv, HangUp, NEW f \in File, C!Next1(f) \/ Active(f), C!Leave(f),
         NEW b \in {NoFile} \cup Nat, b # NoFile => Has(f) /\ Len(disk[f]) >= b,
         cache' = [cache EXCEPT ![f] = b],
         UNCHANGED <<disk, call, times, stop, outcome, torn>>,
         status' \in {"SUCCEED", "FAILED", "CANCELED"},
         urls' = urls \/ urls' = urls \ {Url[f]},
         ~torn /\ urls' # urls => Complete(f)
  PROVE  IInv'
  <1> DEFINE j == [job[f] EXCEPT !.pc = "done"]
  <1>1. conn' = [conn EXCEPT ![f] = C!Closed] /\ job' = [job EXCEPT ![f] = j]
    BY DEF C!Leave
  <1>2. C!Closed \in C!Connection /\ C!Closed.state = "closed"
    BY EmptySeq DEF C!Closed, C!Connection
  <1>3. j \in C!Fetch /\ j.pc = "done"
    <2> DEFINE x == job[f]
    <2>1. x \in C!Fetch
      BY JobFacts
    <2> HIDE DEF x
    <2>2. [x EXCEPT !.pc = "done"] \in C!Fetch /\ [x EXCEPT !.pc = "done"].pc = "done"
      BY <2>1 DEF C!Fetch
    <2> QED
      BY <2>2 DEF x
  <1> HIDE DEF j
  <1>4. disk'[f] = disk[f] /\ cache'[f] = b /\ conn'[f] = C!Closed /\ job'[f] = j
    BY <1>1, JobFacts
  <1>5. C!Listed' = C!Listed /\ link'[f] = 0
    BY <1>2, <1>4, HungUp DEF C!Listed
  <1>6. FileOK(f)' /\ (~torn' => ByteOK(f)')
    <2>1. ASSUME ~torn' PROVE Beginning(f)' /\ Fetched(f)'
      <3>1. ByteOK(f)
        BY <2>1, JobFacts
      <3>2. Beginning(f)'
        BY <1>4, <3>1 DEF ByteOK, Beginning, Has
      <3>3. call # "idle" /\ outcome' # "done" /\ (Complete(f)' <=> Complete(f))
        BY <1>4, JobFacts DEF Complete, Has
      <3>4. Url[f] \notin urls' => Complete(f)
        BY <1>5, <2>1, <3>1, <3>3, JobFacts DEF ByteOK, Fetched
      <3> QED
        BY <1>3, <1>4, <3>2, <3>3, <3>4 DEF Fetched
    <2> QED
      BY <1>2, <1>3, <1>4, <1>5, <2>1, FileLeaves DEF Has
  <1>7. /\ disk' = [disk EXCEPT ![f] = disk[f]] /\ disk[f] \in {NoFile} \cup Seq(Nat)
        /\ f \in C!Listed /\ call \in {"enqueued", "joining"} /\ torn' \in BOOLEAN
    BY JobFacts
  <1> QED
    BY <1>1, <1>2, <1>3, <1>6, <1>7, OneFile

LEMMA QuitKeeps ==
  ASSUME IInv, HangUp, NEW f \in File, C!Quit(f)
  PROVE  IInv'
  <1>1. C!Next1(f) \/ Active(f)
    BY DEF C!Quit, Active
  <1>2. /\ cache' = [cache EXCEPT ![f] = cache[f]] /\ cache[f] \in {NoFile} \cup Nat
        /\ cache[f] # NoFile => Has(f) /\ Len(disk[f]) >= cache[f]
        /\ C!Checked \in {"SUCCEED", "FAILED", "CANCELED"}
    BY <1>1, JobFacts DEF FileOK, C!Quit, C!fileVars
  <1>3. C!Leave(f) /\ UNCHANGED <<disk, call, times, stop, outcome, torn, urls>>
        /\ status' = C!Checked
    BY DEF C!Quit, C!fileVars, C!callVars
  <1> QED
    BY <1>1, <1>2, <1>3, JobLeaves

LEMMA BrokenKeeps ==
  ASSUME IInv, HangUp, NEW f \in File, C!Broken(f)
  PROVE  IInv'
  <1>1. Active(f)
    BY DEF C!Broken, C!Fails, Active
  <1>2. C!Leave(f) /\ UNCHANGED <<disk, call, times, stop, outcome, torn, urls>>
        /\ status' \in {"SUCCEED", "FAILED", "CANCELED"}
    BY <1>1, JobFacts DEF C!Broken, C!Fails, C!callVars
  <1>3. CASE status = "CANCELED"
    <2>1. /\ cache' = [cache EXCEPT ![f] = cache[f]] /\ cache[f] \in {NoFile} \cup Nat
          /\ cache[f] # NoFile => Has(f) /\ Len(disk[f]) >= cache[f]
      BY <1>1, <1>3, JobFacts DEF FileOK, C!Broken, C!Fails
    <2> QED
      BY <1>1, <1>2, <2>1, JobLeaves
  <1>4. CASE status # "CANCELED"
    <2>1. cache' = [cache EXCEPT ![f] = NoFile]
      BY <1>4 DEF C!Broken, C!Fails, C!Removed
    <2> QED
      BY <1>1, <1>2, <2>1, JobLeaves
  <1> QED
    BY <1>3, <1>4

\* The answer is done with.
LEMMA CompletedKeeps ==
  ASSUME IInv, HangUp, NEW f \in File, Active(f), NEW finished \in BOOLEAN,
         C!Completed(f, finished), UNCHANGED <<disk, call, times, stop, outcome, torn>>,
         ~torn /\ finished => Complete(f)
  PROVE  IInv'
  <1>1. cache' = [cache EXCEPT ![f] = NoFile] /\ C!Leave(f)
    BY DEF C!Completed, C!Removed
  <1>2. status' \in {"SUCCEED", "FAILED", "CANCELED"}
    BY JobFacts DEF C!Completed
  <1>3. CASE finished
    <2>1. urls' = urls \ {Url[f]} /\ (~torn => Complete(f))
      BY <1>3 DEF C!Completed
    <2> QED
      BY <1>1, <1>2, <2>1, JobLeaves
  <1>4. CASE ~finished
    <2>1. urls' = urls
      BY <1>4 DEF C!Completed
    <2> QED
      BY <1>1, <1>2, <2>1, JobLeaves
  <1> QED
    BY <1>3, <1>4

\* A job goes on with its connection, and may have flushed its breakpoint.
GoesOn(f, pc, b) ==
  /\ cache' = [cache EXCEPT ![f] = b] /\ job' = [job EXCEPT ![f].pc = pc]
  /\ UNCHANGED <<disk, conn, call, urls, times, stop, outcome, status, torn>>

LEMMA GoesOnKeeps ==
  ASSUME IInv, HangUp, NEW f \in File, NEW pc \in {"receive", "progress"},
         job[f].pc \in {"flush", "progress"},
         NEW b \in {cache[f], job[f].current}, GoesOn(f, pc, b)
  PROVE  IInv'
  <1>1. Active(f)
    BY DEF Active
  <1>2. job[f] \in C!Fetch /\ job[f].current \in Nat /\ job[f].got \in Nat
        /\ Has(f) /\ Len(disk[f]) >= job[f].current /\ FileOK(f)
        /\ cache[f] \in {NoFile} \cup Nat
    BY <1>1, JobFacts DEF FileOK, C!Fetch
  <1> DEFINE j == [job[f] EXCEPT !.pc = pc]
  <1>3. job' = [job EXCEPT ![f] = j] /\ cache'[f] = b /\ b \in {NoFile} \cup Nat
    BY <1>1, <1>2, JobFacts DEF GoesOn
  <1>4. j \in C!Fetch /\ j.pc = pc /\ j.current = job[f].current
        /\ j.got = job[f].got /\ j.finished = job[f].finished
    <2> DEFINE x == job[f]
    <2>1. x \in C!Fetch
      BY <1>2
    <2> HIDE DEF x
    <2>2. LET y == [x EXCEPT !.pc = pc]
          IN y \in C!Fetch /\ y.pc = pc /\ y.current = x.current
             /\ y.got = x.got /\ y.finished = x.finished
      BY <2>1 DEF C!Fetch
    <2> QED
      BY <2>2 DEF x
  <1> HIDE DEF j
  <1>5. disk'[f] = disk[f] /\ conn'[f] = conn[f] /\ job'[f] = j
    BY <1>1, <1>3, JobFacts DEF GoesOn
  <1>6. Active(f)' /\ (Has(f)' <=> Has(f)) /\ C!Listed' = C!Listed
    BY <1>4, <1>5, HungUp DEF GoesOn, Active, Has, C!Listed
  <1>7. link'[f] = link[f]
    BY <1>1, <1>2, <1>5, HungUp, JobFacts DEF FileOK
  <1>8. FileOK(f)'
    BY <1>1, <1>2, <1>3, <1>4, <1>5, <1>6, <1>7 DEF GoesOn, FileOK
  <1>9. ASSUME ~torn' PROVE ByteOK(f)'
    <2>1. ByteOK(f)
      BY <1>1, <1>9, JobFacts DEF GoesOn
    <2>2. Beginning(f)'
      BY <1>5, <1>6, <2>1 DEF ByteOK, Beginning
    <2>3. Following(f)'
      <3>1. j.finished => Len(disk[f]) = Size[f]
        BY <1>1, <1>4, <2>1 DEF ByteOK, Following
      <3> QED
        BY <1>1, <1>4, <1>5, <2>1, <3>1 DEF ByteOK, Following
    <2>4. conn[f].state # "sent" /\ Asked(f)'
      BY <1>5, <2>1 DEF ByteOK, Asked
    <2>5. Answered(f)'
      <3>1. link[f] # 0 => Alike(line[link[f]], line'[link[f]])
        BY HungUp, FileFacts
      <3> QED
        BY <1>5, <1>7, <2>1, <2>4, <3>1 DEF ByteOK, Answered, Alike
    <2>6. Fetched(f)'
      BY <1>1, <1>4, <1>5, <1>6, <2>1, JobFacts DEF GoesOn, ByteOK, Fetched, Complete
    <2> QED
      BY <2>2, <2>3, <2>4, <2>5, <2>6 DEF ByteOK
  <1>10. /\ disk' = [disk EXCEPT ![f] = disk[f]] /\ disk[f] \in {NoFile} \cup Seq(Nat)
         /\ conn' = [conn EXCEPT ![f] = conn[f]] /\ conn[f] \in C!Connection
         /\ f \in C!Listed /\ call \in {"enqueued", "joining"} /\ torn' \in BOOLEAN
         /\ status' \in {"SUCCEED", "FAILED", "CANCELED"}
    BY <1>1, <1>2, <1>3, JobFacts DEF GoesOn
  <1>11. urls' = urls /\ torn' = torn /\ UNCHANGED <<call, times, stop, outcome>>
    BY DEF GoesOn
  <1>12. cache' = [cache EXCEPT ![f] = b]
    BY DEF GoesOn
  <1> QED
    BY <1>3, <1>4, <1>8, <1>9, <1>10, <1>11, <1>12, OneFile

\* The breakpoint is flushed.
LEMMA FlushKeeps ==
  ASSUME IInv, HangUp, NEW f \in File, C!Flush(f)
  PROVE  IInv'
  BY GoesOnKeeps DEF GoesOn, C!Flush, C!Flushed, C!callVars

LEMMA CompleteEmptyKeeps ==
  ASSUME IInv, HangUp, NEW f \in File, C!CompleteEmpty(f)
  PROVE  IInv'
  <1>1. Active(f) /\ C!Completed(f, job[f].finished)
        /\ UNCHANGED <<disk, call, times, stop, outcome, torn>>
    BY DEF C!CompleteEmpty, Active
  <1>2. job[f].finished \in BOOLEAN
    BY <1>1, JobFacts DEF C!Fetch
  <1>3. ~torn /\ job[f].finished => Complete(f)
    BY <1>1, JobFacts DEF ByteOK, Following, FileOK, Complete
  <1> QED
    BY <1>1, <1>2, <1>3, CompletedKeeps
LEMMA NoteKeeps ==
  ASSUME IInv, HangUp, NEW f \in File, C!Note(f)
  PROVE  IInv'
  <1>1. /\ job[f].pc = "progress" /\ Active(f)
        /\ UNCHANGED <<disk, call, times, stop, outcome, torn>>
    BY DEF C!Note, Active
  <1>2. job[f] \in C!Fetch /\ job[f].current \in Nat /\ job[f].got \in Nat
        /\ conn[f].total \in Nat /\ Has(f) /\ Len(disk[f]) >= job[f].current
    BY <1>1, JobFacts DEF FileOK, C!Fetch, C!Connection
  <1>3. CASE job[f].got >= conn[f].total /\ C!Completed(f, TRUE)
    <2>1. ASSUME ~torn PROVE Complete(f)
      <3>1. Beginning(f) /\ Following(f) /\ disk[f] \in Seq(Nat)
        BY <1>1, <1>2, <2>1, JobFacts DEF ByteOK, Has
      <3>2. Len(disk[f]) \in Nat /\ Size[f] \in Nat
        BY <1>1, <3>1, JobFacts, LenProperties
      <3>3. conn[f].total = Size[f] /\ job[f].got <= Len(disk[f]) /\ Len(disk[f]) <= Size[f]
        BY <1>1, <1>2, <3>1 DEF Beginning, Following
      <3> QED
        BY <1>2, <1>3, <3>2, <3>3 DEF Complete
    <2> QED
      BY <1>1, <1>3, <2>1, CompletedKeeps
  <1>4. CASE job' = [job EXCEPT ![f].pc = "receive"] /\ UNCHANGED <<cache, conn, urls, status>>
    <2>1. GoesOn(f, "receive", cache[f])
      BY <1>1, <1>4, JobFacts DEF GoesOn
    <2> QED
      BY <1>1, <2>1, GoesOnKeeps
  <1>5. CASE status' = C!Checked /\ C!Leave(f) /\ UNCHANGED <<cache, urls>>
    <2>1. cache' = [cache EXCEPT ![f] = cache[f]]
          /\ status' \in {"SUCCEED", "FAILED", "CANCELED"}
          /\ (cache[f] # NoFile => Has(f) /\ Len(disk[f]) >= cache[f])
          /\ cache[f] \in {NoFile} \cup Nat /\ C!Leave(f) /\ urls' = urls
      BY <1>1, <1>5, JobFacts DEF FileOK
    <2> QED
      BY <1>1, <2>1, JobLeaves
  <1> QED
    BY <1>3, <1>4, <1>5 DEF C!Note

LEMMA WriteKeeps ==
  ASSUME IInv, HangUp, NEW f \in File, C!Write(f)
  PROVE  IInv'
  <1> DEFINE by == conn[f].bytes
             d == Append(disk[f], Head(by))
             e == [conn[f] EXCEPT !.bytes = Tail(@)]
             j == [job[f] EXCEPT !.pc = "flush", !.current = @ + 1, !.got = @ + 1]
  <1>1. /\ job[f].pc = "receive" /\ Active(f) /\ by # <<>>
        /\ UNCHANGED <<cache, call, urls, times, stop, outcome, status, torn>>
    BY DEF C!Write, Active, C!callVars
  <1>2. /\ disk' = [disk EXCEPT ![f] = d] /\ conn' = [conn EXCEPT ![f] = e]
        /\ job' = [job EXCEPT ![f] = j]
    BY DEF C!Write
  <1>3. /\ job[f] \in C!Fetch /\ conn[f] \in C!Connection /\ disk[f] \in Seq(Nat) /\ Has(f)
        /\ Len(disk[f]) >= job[f].current
    BY <1>1, JobFacts DEF FileOK, Has
  <1>4. by \in Seq(Nat) /\ Head(by) \in Nat /\ Tail(by) \in Seq(Nat)
        /\ Len(Tail(by)) = Len(by) - 1 /\ Len(by) \in Nat \ {0} /\ Len(disk[f]) \in Nat
    <2>1. by \in Seq(Nat)
      BY <1>3 DEF C!Connection
    <2> QED
      BY <1>1, <1>3, <2>1, HeadTailProperties, EmptySeq, LenProperties
  <1>5. d \in Seq(Nat) /\ Len(d) = Len(disk[f]) + 1 /\ d # NoFile
        /\ DOMAIN d = 1 .. Len(disk[f]) + 1 /\ d[Len(disk[f]) + 1] = Head(by)
        /\ \A i \in 1 .. Len(disk[f]) : d[i] = disk[f][i]
    <2> DEFINE s == disk[f]
               h == Head(by)
    <2>1. s \in Seq(Nat) /\ h \in Nat /\ d = Append(s, h) /\ NoFile \notin Seq(Nat)
      BY <1>3, <1>4, TransferAssumption
    <2> HIDE DEF s, h, d
    <2>2. /\ d \in Seq(Nat) /\ Len(d) = Len(s) + 1 /\ d[Len(s) + 1] = h
          /\ \A i \in 1 .. Len(s) : d[i] = s[i]
      BY <2>1, AppendProperties
    <2>3. DOMAIN d = 1 .. Len(s) + 1
      BY <2>2, LenProperties
    <2> QED
      BY <2>1, <2>2, <2>3 DEF s, h
  <1>6. e \in C!Connection /\ e.state = conn[f].state /\ e.range = conn[f].range
        /\ e.total = conn[f].total /\ e.bytes = Tail(by)
    BY <1>3, <1>4 DEF C!Connection
  <1>7. j \in C!Fetch /\ j.pc = "flush" /\ j.current = job[f].current + 1
        /\ j.got = job[f].got + 1 /\ j.finished = job[f].finished
    <2> DEFINE x == job[f]
    <2>1. x \in C!Fetch
      BY <1>3
    <2> DEFINE p == x.current + 1
               q == x.got + 1
    <2>2. p \in Nat /\ q \in Nat
      BY <2>1 DEF C!Fetch
    <2>3. j = [x EXCEPT !.pc = "flush", !.current = p, !.got = q]
      OBVIOUS
    <2> HIDE DEF x, p, q
    <2>4. LET y == [x EXCEPT !.pc = "flush", !.current = p, !.got = q]
          IN y \in C!Fetch /\ y.pc = "flush" /\ y.current = p
             /\ y.got = q /\ y.finished = x.finished
      BY <2>1, <2>2 DEF C!Fetch
    <2> HIDE DEF j
    <2>5. j \in C!Fetch /\ j.pc = "flush" /\ j.current = p /\ j.got = q
          /\ j.finished = x.finished
      BY <2>3, <2>4
    <2> QED
      BY <2>5 DEF x, p, q
  <1>8. job[f].current \in Nat /\ job[f].got \in Nat /\ Size[f] \in Nat
    BY <1>1, <1>3, JobFacts DEF C!Fetch
  <1> HIDE DEF d, e, j
  <1>9. disk'[f] = d /\ cache'[f] = cache[f] /\ conn'[f] = e /\ job'[f] = j
    BY <1>1, <1>2, JobFacts
  <1>10. Active(f)' /\ Has(f)' /\ C!Listed' = C!Listed
    BY <1>5, <1>7, <1>9, HungUp DEF Active, Has, C!Listed
  <1>11. conn[f].state # "closed" /\ link'[f] = link[f]
    BY <1>1, <1>6, <1>9, HungUp, JobFacts DEF FileOK
  <1>12. FileOK(f)'
    <2>1. cache[f] # NoFile => cache[f] \in Nat /\ Len(disk[f]) >= cache[f]
      BY <1>1, JobFacts DEF FileOK
    <2>2. cache[f] # NoFile => Len(d) >= cache[f]
      BY <1>4, <1>5, <2>1
    <2>3. Len(d) >= j.current
      BY <1>3, <1>4, <1>5, <1>7, <1>8
    <2> QED
      BY <1>1, <1>6, <1>9, <1>10, <1>11, <2>2, <2>3, JobFacts DEF FileOK
  <1>13. ASSUME ~torn' PROVE ByteOK(f)'
    <2>1. ByteOK(f) /\ Beginning(f) /\ Following(f)
      BY <1>1, <1>13, JobFacts DEF ByteOK
    <2>2. PICK n \in Nat, k \in Nat :
            n = Len(disk[f]) /\ k = Len(by) - 1 /\ Len(by) = k + 1
      <3>1. Len(by) - 1 \in Nat /\ Len(by) = Len(by) - 1 + 1
        BY <1>4
      <3> QED
        BY <1>4, <3>1
    <2>3. /\ n + k + 1 <= Size[f] /\ Head(by) = n + 1 /\ conn[f].total = Size[f]
          /\ job[f].got <= n /\ ~job[f].finished
          /\ \A i \in 1 .. k + 1 : by[i] = n + i
      <3>1. n + (k + 1) <= Size[f] /\ conn[f].total = Size[f] /\ job[f].got <= n
            /\ \A i \in DOMAIN by : by[i] = n + i
        BY <1>1, <2>1, <2>2 DEF Following
      <3>2. DOMAIN by = 1 .. k + 1 /\ Head(by) = by[1]
        BY <1>1, <1>4, <2>2, HeadTailProperties, LenProperties
      <3>3. job[f].finished => n = Size[f]
        BY <1>1, <2>1, <2>2 DEF Following
      <3>4. n + k + 1 <= Size[f]
        BY <1>8, <3>1
      <3>5. \A i \in 1 .. k + 1 : by[i] = n + i
        BY <3>1, <3>2
      <3>6. by[1] = n + 1
        BY <3>5
      <3>7. ~job[f].finished
        BY <1>8, <3>3, <3>4
      <3> QED
        BY <3>1, <3>2, <3>4, <3>5, <3>6, <3>7
    <2>4. Len(d) = n + 1 /\ DOMAIN d = 1 .. n + 1 /\ d[n + 1] = Head(by)
          /\ \A i \in 1 .. n : d[i] = i
      <3>1. DOMAIN disk[f] = 1 .. n
        BY <1>3, <2>2, LenProperties
      <3> QED
        BY <1>3, <1>5, <2>1, <2>2, <3>1 DEF Beginning
    <2>5. Beginning(f)'
      <3>1. \A i \in 1 .. n + 1 : d[i] = i
        BY <2>3, <2>4
      <3>2. Len(d) <= Size[f]
        BY <1>8, <2>3, <2>4
      <3> QED
        BY <1>9, <2>4, <3>1, <3>2 DEF Beginning
    <2>6. Len(e.bytes) = k /\ DOMAIN e.bytes = 1 .. k
          /\ \A i \in 1 .. k : e.bytes[i] = n + 1 + i
      <3>1. Len(e.bytes) = k /\ DOMAIN e.bytes = 1 .. k
        BY <1>4, <1>6, <2>2, LenProperties
      <3>2. \A i \in 1 .. k : e.bytes[i] = by[i + 1]
        BY <1>1, <1>4, <1>6, <2>2, <3>1, HeadTailProperties
      <3> QED
        BY <2>3, <3>1, <3>2
    <2>7. Following(f)'
      <3>1. Len(d) + Len(e.bytes) <= Size[f] /\ j.got <= Len(d)
        BY <1>7, <1>8, <2>3, <2>4, <2>6
      <3>2. \A i \in DOMAIN e.bytes : e.bytes[i] = Len(d) + i
        BY <2>4, <2>6
      <3>3. ~j.finished /\ e.total = Size[f]
        BY <1>6, <1>7, <2>3
      <3> QED
        BY <1>9, <3>1, <3>2, <3>3 DEF Following
    <2>8. conn[f].state # "sent" /\ Asked(f)'
      BY <1>1, <1>6, <1>9, <2>1 DEF ByteOK, Asked
    <2>9. Answered(f)'
      <3>1. link[f] # 0 => Alike(line[link[f]], line'[link[f]])
        BY HungUp, FileFacts
      <3>2. Len(d) + Len(e.bytes) = Len(disk[f]) + Len(by)
        <4>1. Len(d) + Len(e.bytes) = n + 1 + k
          BY <2>4, <2>6
        <4>2. Len(disk[f]) + Len(by) = n + (k + 1)
          BY <2>2
        <4>3. n + 1 + k = n + (k + 1)
          OBVIOUS
        <4> QED
          BY <4>1, <4>2, <4>3
      <3> QED
        BY <1>6, <1>9, <1>11, <2>1, <2>8, <3>1, <3>2 DEF ByteOK, Answered, Alike
    <2>10. Fetched(f)'
      <3>1. ~Complete(f)
        <4>1. n # Size[f]
          BY <1>8, <2>3
        <4> QED
          BY <2>2, <4>1 DEF Complete
      <3> QED
        BY <1>1, <1>10, <2>1, <3>1, JobFacts DEF ByteOK, Fetched
    <2> QED
      BY <2>5, <2>7, <2>8, <2>9, <2>10 DEF ByteOK
  <1>14. /\ cache' = [cache EXCEPT ![f] = cache[f]] /\ cache[f] \in {NoFile} \cup Nat
         /\ f \in C!Listed /\ call \in {"enqueued", "joining"} /\ torn' \in BOOLEAN
         /\ status' \in {"SUCCEED", "FAILED", "CANCELED"}
    BY <1>1, JobFacts
  <1> QED
    BY <1>1, <1>2, <1>5, <1>6, <1>7, <1>12, <1>13, <1>14, OneFile

\* Every step of a job.
LEMMA JobStepKeeps ==
  ASSUME IInv, NEW f \in File, JobStep(f)
  PROVE  IInv'
  BY ResumeKeeps, OpenKeeps, QuitKeeps, WriteKeeps, FlushKeeps, NoteKeeps,
     CompleteEmptyKeeps, BrokenKeeps
  DEF JobStep, C!JobStep
-----------------------------------------------------------------------------
(* The steps of the server. *)

\* Nothing happens at the client.
LEMMA ClientStays ==
  ASSUME IInv, UNCHANGED <<disk, cache, conn, job, call, urls, times, outcome, status,
                           torn, order, link>>,
         stop' \in BOOLEAN, M!TypeOK', ServerOK', Len(line') = Len(line),
         \A c \in DOMAIN line : Kept(line[c], line'[c])
  PROVE  IInv'
  <1>1. C!TypeOK' /\ CallOK'
    BY DEF IInv, TypeOK, C!TypeOK, CallOK, C!Listed, C!Repeats
  <1>2. TypeOK'
    BY <1>1 DEF IInv, TypeOK
  <1>3. ASSUME NEW f \in File PROVE FileOK(f)' /\ (~torn' => ByteOK(f)')
    <2>1. link[f] # 0 => Kept(line[link[f]], line'[link[f]])
      BY FileFacts
    <2>2. Active(f) => call' \in {"enqueued", "joining"}
      BY FileFacts DEF FileOK
    <2>3. outcome' = "done" /\ ~torn => Fetched(f)'
      BY FileFacts DEF ByteOK, Fetched, Complete, Has, C!Listed
    <2> QED
      BY <2>1, <2>2, <2>3, FileStays
  <1> QED
    BY <1>1, <1>2, <1>3 DEF IInv

\* The connections stay as they are, and the server is still right about them.
LEMMA LinesStay ==
  ASSUME IInv, UNCHANGED <<line, offered, murls, order>>,
         worker' \notin {"accept", "drain"} =>
           \A c \in DOMAIN line : line[c].at \in {"backlog", "closed"},
         stopper' = "idle" =>
           /\ stopper = "idle" /\ ~ready'
           /\ socket => socket'
           /\ worker' = "returned" /\ mstatus' = "SUCCEED" => murls = {}
  PROVE  ServerOK' /\ \A c \in DOMAIN line : Kept(line[c], line'[c])
  <1>1. M!Files' = M!Files
    BY DEF M!Files
  <1>2. \A c \in DOMAIN line' : LineOK(line[c])'
    BY <1>1 DEF IInv, ServerOK, LineOK
  <1> QED
    BY <1>1, <1>2 DEF IInv, ServerOK, Kept

LEMMA AcceptKeeps ==
  ASSUME IInv, M!Accept, UNCHANGED <<client, joint>>
  PROVE  IInv'
  <1>1. PICK c \in DOMAIN line :
          line[c].at = "backlog" /\ line' = [line EXCEPT ![c].at = "queued"]
    BY DEF M!Accept, M!In
  <1>2. worker = "accept" /\ UNCHANGED <<worker, handle, running, socket, ready, mstatus,
                                         murls, stopper, offered, faults>>
    BY DEF M!Accept, M!server
  <1> DEFINE x == line[c]
             l == [x EXCEPT !.at = "queued"]
  <1>3. x \in M!Line /\ LineOK(x) /\ line \in Seq(M!Line)
    BY ConnFacts
  <1>4. line' = [line EXCEPT ![c] = l]
    BY <1>1
  <1>5. l \in M!Line /\ l.at = "queued" /\ l.file = x.file /\ l.range = x.range
        /\ l.total = x.total /\ l.pos = x.pos /\ l.finished = x.finished
        /\ l.success = x.success
    <2> HIDE DEF x
    <2> QED
      BY <1>3 DEF M!Line
  <1> HIDE DEF l
  <1>6. /\ line' \in Seq(M!Line) /\ DOMAIN line' = DOMAIN line /\ Len(line') = Len(line)
        /\ line'[c] = l /\ \A d \in DOMAIN line : d # c => line'[d] = line[d]
    BY <1>3, <1>4, <1>5, LineExcept
  <1>7. order' = order /\ M!Files' = M!Files
    BY DEF joint, M!Files
  <1>8. M!TypeOK'
    BY <1>2, <1>6, <1>7 DEF IInv, TypeOK, M!TypeOK
  <1>9. \A d \in DOMAIN line : Kept(line[d], line'[d])
    BY <1>1, <1>5, <1>6 DEF Kept
  <1>10. ASSUME NEW d \in DOMAIN line' PROVE LineOK(line[d])'
    <2>1. CASE d = c
      BY <1>2, <1>3, <1>5, <1>6, <1>7, <2>1 DEF LineOK
    <2>2. CASE d # c
      <3>1. LineOK(line[d]) /\ line'[d] = line[d]
        BY <1>6, <1>10, <2>2 DEF IInv, ServerOK
      <3> QED
        BY <1>2, <1>7, <3>1 DEF LineOK
    <2> QED
      BY <2>1, <2>2
  <1>11. line # <<>>
    BY ConnFacts
  <1>12. ServerOK'
    BY <1>2, <1>7, <1>10, <1>11 DEF IInv, ServerOK
  <1> QED
    BY <1>6, <1>8, <1>9, <1>12, ClientStays DEF client, callVars, joint, IInv, TypeOK, C!TypeOK

LEMMA WorkerStepKeeps ==
  ASSUME IInv, WorkerStep
  PROVE  IInv'
  <1>1. M!TypeOK /\ M!Files' = M!Files /\ stop' \in BOOLEAN
        /\ UNCHANGED <<disk, cache, conn, job, call, urls, times, outcome, status, torn,
                       order, link>>
    BY DEF WorkerStep, client, callVars, joint, IInv, TypeOK, C!TypeOK, M!Files
  <1>2. CASE M!Accept
    BY <1>2, AcceptKeeps DEF WorkerStep
  <1>3. CASE M!Start \/ M!After
    <2>1. /\ worker \in {"start", "listened"}
          /\ UNCHANGED <<line, running, socket, ready, murls, stopper, offered, faults>>
          /\ worker' \in {"returned", "handle"} /\ handle' \in BOOLEAN
      BY <1>1, <1>3 DEF M!Start, M!After, M!Return, M!server, M!TypeOK
    <2>2. mstatus' \in {"SUCCEED", "FAILED", "CANCELED"}
          /\ (worker' = "returned" /\ mstatus' = "SUCCEED" => murls = {})
      BY <1>1, <1>3 DEF M!Start, M!After, M!Return, M!Checked, M!checkDone, M!TypeOK
    <2>3. M!TypeOK'
      BY <1>1, <2>1, <2>2 DEF M!TypeOK
    <2>4. ServerOK' /\ \A c \in DOMAIN line : Kept(line[c], line'[c])
      BY <1>1, <2>1, <2>2, LinesStay DEF IInv, ServerOK
    <2> QED
      BY <1>1, <2>1, <2>3, <2>4, ClientStays
  <1>4. CASE M!SetHandle \/ M!Bind \/ M!Run \/ M!Leave \/ M!Drain
    <2>1. /\ UNCHANGED <<line, ready, mstatus, murls, stopper, offered>>
          /\ worker' \in {"bind", "run", "accept", "drain", "listened"}
          /\ handle' \in BOOLEAN /\ running' \in BOOLEAN /\ socket' \in BOOLEAN
          /\ faults' \in Nat /\ (socket => socket')
      <3>1. handle \in BOOLEAN /\ running \in BOOLEAN /\ socket \in BOOLEAN /\ faults \in Nat
        BY <1>1 DEF M!TypeOK
      <3>2. CASE M!SetHandle
        BY <3>1, <3>2 DEF M!SetHandle, M!server
      <3>3. CASE M!Bind
        <4>1. UNCHANGED <<line, ready, mstatus, murls, stopper, offered, handle, running>>
              /\ worker' \in {"run", "listened"}
          BY <3>3 DEF M!Bind
        <4>2. \/ socket' = TRUE /\ faults' = faults
              \/ socket' = socket /\ faults' = faults + 1
          BY <3>3 DEF M!Bind
        <4>3. faults' \in Nat
          BY <3>1, <4>2
        <4>4. socket' \in BOOLEAN /\ (socket => socket')
          BY <3>1, <4>2
        <4> QED
          BY <3>1, <4>1, <4>3, <4>4
      <3>4. CASE M!Run
        BY <3>1, <3>4 DEF M!Run
      <3>5. CASE M!Leave
        BY <3>1, <3>5 DEF M!Leave, M!server
      <3>6. CASE M!Drain
        BY <3>1, <3>6 DEF M!Drain
      <3> QED
        BY <1>4, <3>2, <3>3, <3>4, <3>5, <3>6
    <2>2. M!TypeOK'
      BY <1>1, <2>1 DEF M!TypeOK
    <2>3. worker' \notin {"accept", "drain"} =>
            \A c \in DOMAIN line : line[c].at \in {"backlog", "closed"}
      <3>1. CASE M!SetHandle \/ M!Bind \/ M!Run \/ M!Leave
        BY <3>1 DEF M!SetHandle, M!Bind, M!Run, M!Leave, IInv, ServerOK
      <3>2. CASE M!Drain
        <4>1. \A c \in DOMAIN line : line[c].at \notin {"queued", "loop", "write", "release"}
          BY <3>2 DEF M!Drain, M!Drained, M!Served, M!In
        <4> QED
          BY <4>1, ConnFacts
      <3> QED
        BY <1>4, <3>1, <3>2
    <2>4. ServerOK' /\ \A c \in DOMAIN line : Kept(line[c], line'[c])
      BY <1>1, <2>1, <2>3, LinesStay DEF IInv, ServerOK
    <2> QED
      BY <1>1, <2>1, <2>2, <2>4, ClientStays
  <1> QED
    BY <1>2, <1>3, <1>4 DEF WorkerStep, M!WorkerStep

LEMMA StopThreadKeeps ==
  ASSUME IInv, StopThread
  PROVE  IInv'
  <1>1. M!TypeOK /\ M!Files' = M!Files /\ stop' \in BOOLEAN
        /\ UNCHANGED <<disk, cache, conn, job, call, urls, times, outcome, status, torn,
                       order, link>>
    BY DEF StopThread, client, callVars, joint, IInv, TypeOK, C!TypeOK, M!Files
  <1>2. /\ UNCHANGED <<line, worker, handle, mstatus, murls, offered, faults>>
        /\ stopper' \in {"holds", "missed", "stopped", "waiting", "deaf", "ended"}
        /\ ready' \in BOOLEAN
        /\ socket' \in BOOLEAN /\ running' \in BOOLEAN
    BY <1>1 DEF StopThread, M!ReadHandle, M!StopServer, M!Told, M!SetReady, M!ServerStop,
         M!server, M!TypeOK
  <1>3. M!TypeOK'
    BY <1>1, <1>2 DEF M!TypeOK
  <1>4. ServerOK' /\ \A c \in DOMAIN line : Kept(line[c], line'[c])
    BY <1>1, <1>2, LinesStay DEF IInv, ServerOK
  <1> QED
    BY <1>1, <1>2, <1>3, <1>4, ClientStays
-----------------------------------------------------------------------------
(* The connections between them. *)

\* A connection is lost to the client.
LEMMA LostKeeps ==
  ASSUME IInv, NEW f \in File, Lost(f), conn[f].state # "closed",
         UNCHANGED <<disk, cache, job, callVars, status, torn, order, link>>,
         M!TypeOK', ServerOK', Len(line') = Len(line),
         \A c \in DOMAIN line : Kept(line[c], line'[c])
  PROVE  IInv'
  <1> DEFINE e == [conn[f] EXCEPT !.state = "lost", !.bytes = <<>>]
  <1>1. conn' = [conn EXCEPT ![f] = e] /\ conn \in [File -> C!Connection]
    BY DEF Lost, IInv, TypeOK, C!TypeOK
  <1>2. e \in C!Connection /\ e.state = "lost" /\ e.bytes = <<>>
        /\ e.total = conn[f].total /\ e.range = conn[f].range
    BY <1>1, EmptySeq DEF C!Connection
  <1> HIDE DEF e
  <1>3. conn'[f] = e /\ \A g \in File : g # f => conn'[g] = conn[g]
    BY <1>1
  <1>4. UNCHANGED <<call, urls, times, stop, outcome>> /\ C!Listed' = C!Listed
    BY DEF callVars, C!Listed
  <1>5. CallOK' /\ C!TypeOK'
    BY <1>1, <1>2, <1>4 DEF IInv, TypeOK, C!TypeOK, CallOK, C!Repeats
  <1>6. TypeOK'
    BY <1>5 DEF IInv, TypeOK
  <1>7. FileOK(f)' /\ (~torn' => ByteOK(f)')
    <2>1. FileOK(f) /\ (~torn => ByteOK(f)) /\ disk[f] \in {NoFile} \cup Seq(Nat)
          /\ Size[f] \in Nat
      BY FileFacts
    <2>2. (Active(f)' <=> Active(f)) /\ (Has(f)' <=> Has(f)) /\ Active(f)
      BY <2>1 DEF Active, Has, FileOK
    <2>3. FileOK(f)'
      BY <1>2, <1>3, <1>4, <2>1, <2>2 DEF FileOK
    <2>4. ASSUME ~torn PROVE ByteOK(f)'
      <3>1. Beginning(f) /\ Following(f) /\ Has(f)
        BY <2>1, <2>2, <2>4 DEF ByteOK, FileOK
      <3>2. Len(disk[f]) \in Nat /\ Len(disk[f]) <= Size[f]
        BY <2>1, <3>1, LenProperties DEF Has, Beginning
      <3>3. Following(f)'
        <4>1. Len(e.bytes) = 0 /\ DOMAIN e.bytes = {}
          BY <1>2, EmptySeq
        <4>2. Len(disk[f]) + Len(e.bytes) <= Size[f]
          BY <2>1, <3>2, <4>1
        <4>3. /\ job[f].pc \in {"flush", "progress"} => e.total = Size[f]
              /\ job[f].got <= Len(disk[f])
              /\ job[f].finished => Len(disk[f]) = Size[f]
          BY <1>2, <2>2, <3>1 DEF Following
        <4> QED
          BY <1>2, <1>3, <2>2, <4>1, <4>2, <4>3 DEF Following
      <3>4. Beginning(f)' /\ Asked(f)' /\ Fetched(f)'
        BY <1>2, <1>3, <1>4, <2>1, <2>2, <2>4, <3>1
        DEF ByteOK, Beginning, Asked, Fetched, Complete
      <3>5. Answered(f)'
        <4>1. link[f] # 0 => Kept(line[link[f]], line'[link[f]])
          BY FileFacts
        <4> QED
          BY <1>2, <1>3, <2>1, <2>4, <4>1 DEF ByteOK, Answered, Kept
      <3> QED
        BY <3>3, <3>4, <3>5 DEF ByteOK
    <2> QED
      BY <2>3, <2>4
  <1>8. ASSUME NEW g \in File, g # f PROVE FileOK(g)' /\ (~torn' => ByteOK(g)')
    <2>1. link[g] # 0 => Kept(line[link[g]], line'[link[g]])
      BY FileFacts
    <2>2. Active(g) => call' \in {"enqueued", "joining"}
      BY <1>4, FileFacts DEF FileOK
    <2>3. outcome' = "done" /\ ~torn => Fetched(g)'
      BY <1>4, FileFacts DEF ByteOK, Fetched, Complete, Has
    <2> QED
      BY <1>3, <1>4, <1>8, <2>1, <2>2, <2>3, FileStays
  <1> QED
    BY <1>5, <1>6, <1>7, <1>8 DEF IInv

LEMMA BreakKeeps ==
  ASSUME IInv, NEW f \in File, Break(f)
  PROVE  IInv'
  <1>1. /\ Lost(f) /\ conn[f].state # "closed"
        /\ UNCHANGED <<disk, cache, job, callVars, status, torn, order, link>>
    BY DEF Break, C!Break, Lost, joint, callVars, C!callVars, C!fileVars
  <1>2. /\ DOMAIN line' = DOMAIN line /\ line' = [c \in DOMAIN line |-> line'[c]]
        /\ \A c \in DOMAIN line :
             line'[c] = line[c] \/ line'[c] = [line[c] EXCEPT !.open = FALSE]
    BY DEF Break
  <1>3. UNCHANGED <<master, order>>
    BY DEF Break, joint
  <1>4. /\ M!TypeOK' /\ ServerOK' /\ Len(line') = Len(line)
        /\ \A c \in DOMAIN line : Kept(line[c], line'[c])
    BY <1>2, <1>3, ServerStays DEF Kept, Alike
  <1> QED
    BY <1>1, <1>4, LostKeeps

LEMMA NothingAtServer ==
  ASSUME IInv, UNCHANGED <<master, line, order>>
  PROVE  M!TypeOK' /\ ServerOK' /\ \A c \in DOMAIN line : Kept(line[c], line'[c])
  <1>1. UNCHANGED <<worker, handle, running, socket, ready, mstatus, murls, stopper,
                    offered, faults>>
    BY DEF master
  <1>2. M!TypeOK'
    BY <1>1 DEF IInv, TypeOK, M!TypeOK, M!Files
  <1>3. ServerOK' /\ \A c \in DOMAIN line : Kept(line[c], line'[c])
    BY <1>1, LinesStay DEF IInv, ServerOK
  <1> QED
    BY <1>2, <1>3

LEMMA TimeoutKeeps ==
  ASSUME IInv, NEW f \in File, Timeout(f)
  PROVE  IInv'
  BY NothingAtServer, LostKeeps DEF Timeout, joint
\* A request comes to the server.
LEMMA ConnectKeeps ==
  ASSUME IInv, NEW f \in File, conn[f].state = "sent", link[f] = 0,
         M!Connect(f, conn[f].range), link' = [link EXCEPT ![f] = Len(line) + 1],
         UNCHANGED <<disk, cache, conn, job, callVars, status, torn, order>>
  PROVE  IInv'
  <1> DEFINE l == M!Fresh(f, conn[f].range)
             n == Len(line)
  <1>1. /\ line' = Append(line, l) /\ socket
        /\ UNCHANGED <<worker, handle, running, socket, ready, mstatus, murls, stopper,
                       offered, faults>>
        /\ UNCHANGED <<call, urls, times, stop, outcome>>
    BY DEF M!Connect, M!server, callVars
  <1>2. line \in Seq(M!Line) /\ M!TypeOK /\ n \in Nat /\ DOMAIN line = 1 .. n
        /\ link \in [File -> Nat] /\ \A g \in File : link[g] <= n
    BY LenProperties DEF IInv, TypeOK, M!TypeOK
  <1>3. l \in M!Line /\ l.file = f /\ l.range = conn[f].range /\ l.at = "backlog"
        /\ ~l.finished /\ ~l.success
    <2>1. conn[f].range \in Nat \cup {M!NoRange}
      BY FileFacts DEF C!Connection, C!NoRange, M!NoRange
    <2> QED
      BY <2>1, FreshFacts
  <1> HIDE DEF l
  <1>4. /\ line' \in Seq(M!Line) /\ Len(line') = n + 1 /\ DOMAIN line' = 1 .. n + 1
        /\ line'[n + 1] = l /\ \A c \in 1 .. n : line'[c] = line[c]
    <2>1. line' \in Seq(M!Line) /\ Len(line') = n + 1
          /\ line'[n + 1] = l /\ \A c \in 1 .. n : line'[c] = line[c]
      BY <1>1, <1>2, <1>3, AppendProperties
    <2> QED
      BY <2>1, LenProperties
  <1> HIDE DEF n
  <1>5. Active(f) /\ f \in C!Listed /\ C!Listed = M!Files
    <2>1. Active(f) /\ f \in C!Listed
      BY FileFacts DEF FileOK
    <2> QED
      BY <2>1 DEF C!Listed, M!Files
  <1>6. C!Listed' = C!Listed /\ M!Files' = M!Files
    BY DEF C!Listed, M!Files
  <1>7. M!TypeOK'
    BY <1>1, <1>2, <1>4, <1>6 DEF M!TypeOK
  <1>8. ServerOK'
    <2>1. ASSUME NEW c \in 1 .. n + 1
          PROVE  LineOK(line[c])'
                 /\ (worker' \notin {"accept", "drain"} => line'[c].at \in {"backlog", "closed"})
      <3>1. CASE c \in 1 .. n
        <4>1. LineOK(line[c]) /\ line'[c] = line[c]
              /\ (worker \notin {"accept", "drain"} => line[c].at \in {"backlog", "closed"})
          BY <1>2, <1>4, <3>1 DEF IInv, ServerOK
        <4> QED
          BY <1>1, <1>6, <4>1 DEF LineOK
      <3>2. CASE c = n + 1
        BY <1>1, <1>3, <1>4, <1>5, <1>6, <3>2 DEF LineOK
      <3> QED
        BY <1>2, <2>1, <3>1, <3>2
    <2>2. stopper' = "idle" =>
            /\ ~ready' /\ M!Files' \ murls' \subseteq offered'
            /\ worker' = "returned" /\ mstatus' = "SUCCEED" => murls' = {}
      BY <1>1, <1>6 DEF IInv, ServerOK
    <2> QED
      BY <1>1, <1>4, <2>1, <2>2 DEF ServerOK
  <1>9. CallOK' /\ C!TypeOK'
    BY <1>1, <1>6 DEF IInv, TypeOK, C!TypeOK, CallOK, C!Repeats
  <1>10. link' \in [File -> Nat] /\ (\A g \in File : link'[g] <= Len(line'))
         /\ link'[f] = n + 1 /\ \A g \in File : g # f => link'[g] = link[g]
    BY <1>2, <1>4 DEF n
  <1>11. TypeOK'
    BY <1>7, <1>9, <1>10 DEF IInv, TypeOK
  <1>12. FileOK(f)' /\ (~torn' => ByteOK(f)')
    <2>1. FileOK(f) /\ (~torn => ByteOK(f))
      BY FileFacts
    <2>2. (Active(f)' <=> Active(f)) /\ (Has(f)' <=> Has(f))
      BY DEF Active, Has
    <2>3. FileOK(f)'
      BY <1>1, <1>5, <1>6, <2>1, <2>2 DEF FileOK
    <2>4. ASSUME ~torn PROVE ByteOK(f)'
      <3>1. Beginning(f)' /\ Following(f)' /\ Asked(f)' /\ Fetched(f)'
        BY <1>1, <1>6, <2>1, <2>2, <2>4
        DEF ByteOK, Beginning, Following, Asked, Fetched, Complete, M!Begin
      <3>2. Answered(f)'
        BY <1>3, <1>4, <1>10 DEF Answered
      <3> QED
        BY <3>1, <3>2 DEF ByteOK
    <2> QED
      BY <2>3, <2>4
  <1>13. ASSUME NEW g \in File, g # f PROVE FileOK(g)' /\ (~torn' => ByteOK(g)')
    <2>1. link[g] # 0 => Kept(line[link[g]], line'[link[g]])
      BY <1>2, <1>4, FileFacts DEF Kept
    <2>2. Active(g) => call' \in {"enqueued", "joining"}
      BY <1>1, FileFacts DEF FileOK
    <2>3. outcome' = "done" /\ ~torn => Fetched(g)'
      BY <1>1, <1>6, FileFacts DEF ByteOK, Fetched, Complete, Has
    <2> QED
      BY <1>1, <1>10, <1>13, <2>1, <2>2, <2>3, FileStays
  <1> QED
    BY <1>8, <1>9, <1>11, <1>12, <1>13 DEF IInv

LEMMA ArriveKeeps ==
  ASSUME IInv, NEW f \in File, Arrive(f)
  PROVE  IInv'
  <1>1. /\ conn[f].state = "sent" /\ link[f] = 0
        /\ UNCHANGED <<disk, cache, job, callVars, status, torn, order>>
    BY DEF Arrive
  <1>2. CASE /\ M!Connect(f, conn[f].range) /\ link' = [link EXCEPT ![f] = Len(line) + 1]
             /\ conn' = conn
    BY <1>1, <1>2, ConnectKeeps
  <1>3. CASE Lost(f) /\ UNCHANGED <<master, line, link>>
    BY <1>1, <1>3, NothingAtServer, LostKeeps
  <1> QED
    BY <1>2, <1>3 DEF Arrive
-----------------------------------------------------------------------------
(* The steps of the call. *)

\* All jobs are new, or gone: nothing is left of the connections.
LEMMA JobsGone ==
  ASSUME IInv, HangUp,
         job' = [f \in File |-> C!Queued], conn' = [f \in File |-> C!Closed],
         UNCHANGED <<disk, cache, torn>>,
         C!TypeOK', CallOK', outcome' # "done",
         call' = "idle" \/ urls' = {Url[f] : f \in C!Listed}
  PROVE  IInv'
  <1>1. M!TypeOK' /\ ServerOK' /\ TypeOK' /\ C!Listed' = C!Listed
    BY HungUp DEF IInv, TypeOK, C!Listed
  <1>2. ASSUME NEW f \in File PROVE FileOK(f)' /\ (~torn' => ByteOK(f)')
    <2>1. conn'[f].state = "closed" /\ job'[f].pc = "queued" /\ link'[f] = 0
      BY HungUp DEF C!Closed, C!Queued
    <2>2. cache'[f] # NoFile => disk'[f] # NoFile /\ Len(disk'[f]) >= cache'[f]
      BY FileFacts DEF FileOK, Has
    <2>3. ~torn' => Beginning(f)' /\ Fetched(f)'
      <3>1. ~torn => Beginning(f)'
        BY FileFacts DEF ByteOK, Beginning, Has
      <3>2. Fetched(f)'
        BY <1>1 DEF Fetched
      <3> QED
        BY <3>1, <3>2
    <2> QED
      BY <2>1, <2>2, <2>3, FileLeaves
  <1> QED
    BY <1>1, <1>2 DEF IInv

LEMMA NewJobs ==
  /\ [f \in File |-> C!Queued] \in [File -> C!Fetch]
  /\ [f \in File |-> C!Closed] \in [File -> C!Connection]
  <1>1. C!Queued \in C!Fetch
    BY DEF C!Queued, C!Fetch
  <1>2. C!Closed \in C!Connection
    BY EmptySeq DEF C!Closed, C!Connection
  <1> QED
    BY <1>1, <1>2

\* The jobs are enqueued, or the call returns at once.
LEMMA EnqueueKeeps ==
  ASSUME IInv, HangUp, NEW stopped, C!Enqueue(stopped), outcome' # "done",
         times' \in Nat, stop' \in BOOLEAN, outcome' \in {"none", "done", "error", "quiet"}
  PROVE  IInv'
  <1>1. order' = order
    BY HungUp
  <1>2. /\ job' = [f \in File |-> C!Queued] /\ conn' = [f \in File |-> C!Closed]
        /\ urls' = {Url[f] : f \in C!Listed}
        /\ UNCHANGED <<disk, cache, torn>>
    BY DEF C!Enqueue, C!fileVars
  <1>3. \/ call' = "returned" /\ status' \in {"FAILED", "CANCELED"}
        \/ call' = "enqueued" /\ status' = "SUCCEED" /\ ~C!Repeats
    BY DEF C!Enqueue
  <1>4. C!TypeOK /\ C!Listed' = C!Listed /\ (C!Repeats' <=> C!Repeats)
    BY <1>1 DEF IInv, TypeOK, C!Listed, C!Repeats
  <1>5. C!TypeOK'
    BY <1>2, <1>3, <1>4, NewJobs DEF C!TypeOK
  <1>6. CallOK'
    BY <1>3, <1>4 DEF CallOK
  <1> QED
    BY <1>2, <1>5, <1>6, JobsGone

LEMMA DiesKeeps ==
  ASSUME IInv, HangUp, C!Dies
  PROVE  IInv'
  <1>1. /\ job' = [f \in File |-> C!Queued] /\ conn' = [f \in File |-> C!Closed]
        /\ call' = "idle" /\ stop' = FALSE /\ times' = 0 /\ outcome' = "none"
        /\ urls' = {} /\ status' = "SUCCEED" /\ UNCHANGED <<disk, cache, torn>>
    BY DEF C!Dies, C!fileVars
  <1>2. C!TypeOK'
    BY <1>1, NewJobs DEF C!TypeOK, IInv, TypeOK
  <1>3. CallOK'
    BY <1>1 DEF CallOK
  <1> QED
    BY <1>1, <1>2, <1>3, JobsGone

\* The call goes on, and its jobs stay as they are.
LEMMA CallGoesOn ==
  ASSUME IInv, HangUp, UNCHANGED <<disk, cache, conn, job, urls, times, stop, torn>>,
         C!TypeOK', CallOK',
         \A f \in File : Active(f) => call' \in {"enqueued", "joining"},
         call' = "idle" \/ call # "idle",
         outcome' = "done" => urls = {} /\ call # "idle"
  PROVE  IInv'
  <1>1. M!TypeOK' /\ ServerOK' /\ TypeOK' /\ order' = order /\ C!Listed' = C!Listed
    BY HungUp DEF IInv, TypeOK, C!Listed
  <1>2. ASSUME NEW f \in File PROVE FileOK(f)' /\ (~torn' => ByteOK(f)')
    <2>1. link'[f] = link[f]
      BY HungUp, FileFacts DEF FileOK
    <2>2. link[f] # 0 => Kept(line[link[f]], line'[link[f]])
      BY HungUp, FileFacts DEF Kept, Alike
    <2>3. outcome' = "done" /\ ~torn => Fetched(f)'
      BY <1>1, FileFacts DEF ByteOK, Fetched, Complete, Has
    <2> QED
      BY <1>1, <2>1, <2>2, <2>3, FileStays
  <1> QED
    BY <1>1, <1>2 DEF IInv

LEMMA CallStepKeeps ==
  ASSUME IInv, CallStep
  PROVE  IInv'
  <1>1. HangUp /\ C!TypeOK /\ CallOK /\ order' = order /\ C!Listed' = C!Listed
        /\ (C!Repeats' <=> C!Repeats)
    BY HungUp DEF CallStep, IInv, TypeOK, C!Listed, C!Repeats
  <1>2. CASE C!Retry
    BY <1>1, <1>2, EnqueueKeeps DEF C!Retry, C!TypeOK, CallOK
  <1>3. CASE C!Shutdown
    <2>1. /\ call = "enqueued" /\ call' = "joining"
          /\ UNCHANGED <<disk, cache, conn, job, urls, times, stop, outcome, status, torn>>
      BY <1>3 DEF C!Shutdown, C!fileVars
    <2>2. C!TypeOK' /\ CallOK' /\ outcome' # "done"
      BY <1>1, <2>1 DEF C!TypeOK, CallOK
    <2> QED
      BY <1>1, <2>1, <2>2, CallGoesOn
  <1>4. CASE C!Terminate
    BY <1>1, <1>4, DiesKeeps DEF C!Terminate
  <1>5. CASE C!Join
    <2>1. /\ call = "joining" /\ call' = "returned"
          /\ \A f \in C!Listed : job[f].pc = "done"
          /\ UNCHANGED <<disk, cache, conn, job, urls, times, stop, outcome, torn>>
          /\ status' = IF ~C!checkDone /\ urls # {} THEN "FAILED" ELSE C!Checked
      BY <1>5 DEF C!Join, C!fileVars
    <2>2. status' \in {"SUCCEED", "FAILED", "CANCELED"} /\ (status' = "SUCCEED" => urls = {})
      BY <1>1, <2>1 DEF C!TypeOK, C!checkDone, C!Checked
    <2>3. C!TypeOK' /\ CallOK' /\ outcome' # "done"
      BY <1>1, <2>1, <2>2 DEF C!TypeOK, CallOK
    <2>4. \A f \in File : ~Active(f)
      BY <2>1, FileFacts DEF Active, FileOK
    <2> QED
      BY <1>1, <2>1, <2>3, <2>4, CallGoesOn
  <1>6. CASE C!Post
    <2>1. /\ call = "returned" /\ call' = "idle"
          /\ UNCHANGED <<disk, cache, conn, job, urls, times, stop, status, torn>>
      BY <1>6 DEF C!Post, C!fileVars
    <2>2. \/ status = "SUCCEED" /\ outcome' = "done"
          \/ status # "SUCCEED" /\ outcome' \in {"error", "quiet"}
      <3>1. status \in {"SUCCEED", "FAILED", "CANCELED"}
        BY <1>1 DEF C!TypeOK
      <3>2. outcome' = CASE status = "SUCCEED" -> "done"
                         [] status = "FAILED" -> "error"
                         [] status = "CANCELED" -> "quiet"
        BY <1>6 DEF C!Post
      <3>3. CASE status = "SUCCEED"
        BY <3>2, <3>3
      <3>4. CASE status = "FAILED"
        BY <3>2, <3>4
      <3>5. CASE status = "CANCELED"
        BY <3>2, <3>5
      <3> QED
        BY <3>1, <3>3, <3>4, <3>5
    <2>3. C!TypeOK' /\ CallOK' /\ (outcome' = "done" => urls = {})
      BY <1>1, <2>1, <2>2 DEF C!TypeOK, CallOK
    <2>4. \A f \in File : ~Active(f)
      BY <2>1, FileFacts DEF Active, FileOK
    <2> QED
      BY <1>1, <2>1, <2>3, <2>4, CallGoesOn
  <1> QED
    BY <1>2, <1>3, <1>4, <1>5, <1>6 DEF CallStep, C!CallStep

LEMMA ClientStopKeeps ==
  ASSUME IInv, ClientStop
  PROVE  IInv'
  <1>1. UNCHANGED <<disk, cache, conn, job, call, urls, times, outcome, status, torn,
                    order, link, line, master>> /\ stop' \in BOOLEAN
    BY DEF ClientStop, C!Stop, C!fileVars, joint
  <1> QED
    BY <1>1, NothingAtServer, ClientStays
-----------------------------------------------------------------------------
(* The invariant, and what follows from it. *)

LEMMA InitIInv == Init => IInv
  <1> SUFFICES ASSUME Init PROVE IInv
    OBVIOUS
  <1>1. /\ order \in Orders /\ C!Init /\ M!Init /\ link = [f \in File |-> 0]
    BY DEF Init
  <1>2. line = <<>> /\ line \in Seq(M!Line) /\ Len(line) = 0 /\ DOMAIN line = {}
    BY <1>1, EmptySeq DEF M!Init
  <1>3. M!TypeOK
    BY <1>1, <1>2 DEF M!Init, M!TypeOK
  <1>4. C!TypeOK
    BY <1>1, NewJobs DEF C!Init, C!TypeOK
  <1>5. TypeOK
    BY <1>1, <1>2, <1>3, <1>4 DEF TypeOK
  <1>6. ServerOK
    BY <1>1, <1>2 DEF M!Init, ServerOK
  <1>7. CallOK
    BY <1>1 DEF C!Init, CallOK
  <1>8. ASSUME NEW f \in File PROVE FileOK(f) /\ ByteOK(f)
    <2>1. disk[f] = NoFile /\ cache[f] = NoFile /\ conn[f] = C!Closed /\ job[f] = C!Queued
          /\ link[f] = 0 /\ call = "idle" /\ outcome = "none"
      BY <1>1 DEF C!Init
    <2>2. conn[f].state = "closed" /\ ~Active(f) /\ ~Has(f)
      BY <2>1 DEF C!Closed, C!Queued, Active, Has
    <2> QED
      BY <2>1, <2>2
      DEF FileOK, ByteOK, Beginning, Following, Asked, Answered, Fetched
  <1> QED
    BY <1>5, <1>6, <1>7, <1>8 DEF IInv

LEMMA StepIInv == IInv /\ [Next]_vars => IInv'
  <1> SUFFICES ASSUME IInv, [Next]_vars PROVE IInv'
    OBVIOUS
  <1>1. CASE Pull
    <2>1. HangUp /\ C!Enqueue(FALSE) /\ outcome' = "none" /\ times' = 0 /\ stop' = FALSE
      BY <1>1 DEF Pull, C!Call
    <2> QED
      BY <2>1, EnqueueKeeps
  <1>2. CASE CallStep
    BY <1>2, CallStepKeeps
  <1>3. CASE ClientStop
    BY <1>3, ClientStopKeeps
  <1>4. CASE Kill
    BY <1>4, DiesKeeps DEF Kill, C!Kill
  <1>5. ASSUME NEW f \in File, JobStep(f) \/ Break(f) \/ Arrive(f) \/ Timeout(f)
        PROVE  IInv'
    BY <1>5, JobStepKeeps, BreakKeeps, ArriveKeeps, TimeoutKeeps
  <1>6. CASE WorkerStep
    BY <1>6, WorkerStepKeeps
  <1>7. CASE StopThread
    BY <1>7, StopThreadKeeps
  <1>8. ASSUME NEW c \in DOMAIN line, ConnStep(c) PROVE IInv'
    BY <1>8, ConnStepKeeps
  <1>9. CASE UNCHANGED vars
    <2>1. UNCHANGED <<disk, cache, conn, job, call, urls, times, stop, outcome, status, torn,
                      order, link, line, master>>
      BY <1>9 DEF vars, client, callVars, joint
    <2>2. stop' \in BOOLEAN
      BY <2>1 DEF IInv, TypeOK, C!TypeOK
    <2> QED
      BY <2>1, <2>2, NothingAtServer, ClientStays
  <1> QED
    BY <1>1, <1>2, <1>3, <1>4, <1>5, <1>6, <1>7, <1>8, <1>9 DEF Next

\* The inductive invariant holds.
THEOREM Invariance == Spec => []IInv
  <1> QED
    BY InitIInv, StepIInv, PTL DEF Spec

\* Both ends, and the connections between them, keep their types (download_http.cpp,
\* distribute_http.cpp).
THEOREM TypeCorrect == Spec => []TypeOK
  <1>1. IInv => TypeOK
    BY DEF IInv
  <1> QED
    BY <1>1, Invariance, PTL

\* What a call that succeeded leaves are whole files, whatever their sizes, and whatever
\* was broken off, killed and taken up again, unless a breakpoint did not agree with its
\* data (Client::download, distribute).
THEOREM PulledAreWhole == Spec => []PulledIsWhole
  <1>1. IInv => PulledIsWhole
    <2> SUFFICES ASSUME IInv, ~torn, outcome = "done", NEW f \in C!Listed
                 PROVE  disk[f] = [i \in 1 .. Size[f] |-> i]
      BY DEF PulledIsWhole, C!WholeUnlessTorn, C!ResumedIsWhole, C!Whole
    <2>1. f \in File
      <3>1. order \in Seq(File)
        BY TransferAssumption DEF IInv, TypeOK
      <3> QED
        BY <3>1, LenProperties, ElementOfSeq DEF C!Listed
    <2>2. Beginning(f) /\ Complete(f)
      BY <2>1, FileFacts DEF ByteOK, Fetched
    <2>3. disk[f] \in Seq(Nat) /\ Len(disk[f]) = Size[f]
          /\ \A i \in DOMAIN disk[f] : disk[f][i] = i
      BY <2>1, <2>2, FileFacts DEF Beginning, Complete, Has
    <2>4. DOMAIN disk[f] = 1 .. Size[f] /\ disk[f] = [i \in DOMAIN disk[f] |-> disk[f][i]]
      BY <2>3, LenProperties
    <2> QED
      BY <2>3, <2>4
  <1> QED
    BY <1>1, Invariance, PTL

\* At whatever moment the process dies, the data on the disk is not behind its
\* breakpoint (the content receiver's two flushes).
THEOREM NeverBehinds == Spec => []NeverBehind
  <1>1. IInv => NeverBehind
    BY FileFacts DEF NeverBehind, C!NeverBehind, FileOK, Has
  <1> QED
    BY <1>1, Invariance, PTL

\* A distribution that ends with success, and was not stopped, has offered every file to
\* its last byte (distribute, the provider's release).
THEOREM SuccessesOffered == Spec => []SuccessIsOffered
  <1>1. IInv => SuccessIsOffered
    BY DEF SuccessIsOffered, M!SuccessIsOffered, IInv, ServerOK, TypeOK, M!TypeOK
  <1> QED
    BY <1>1, Invariance, PTL
=============================================================================
