------------------------------ MODULE ForkJoin ------------------------------
(***************************************************************************)
(* What the callers of httplib::ThreadPool in src/core rely on: the jobs   *)
(* they hand over are each done once, and shutdown() returns when all of   *)
(* them are done.  download(), verify(), patch() and distribute() read     *)
(* what the jobs have left behind (urls, status, transfers) without a lock *)
(* after that.                                                             *)
(***************************************************************************)
EXTENDS Naturals, FiniteSets

CONSTANT Job  \* what is handed over

VARIABLES
  open,     \* jobs handed over and not done
  done,     \* jobs that are done
  joined    \* shutdown() has returned

Init ==
  /\ open = {}
  /\ done = {}
  /\ joined = FALSE

Give(j) ==
  /\ ~joined
  /\ j \notin open \cup done
  /\ open' = open \cup {j}
  /\ UNCHANGED <<done, joined>>

Finish(j) ==
  /\ j \in open
  /\ open' = open \ {j}
  /\ done' = done \cup {j}
  /\ UNCHANGED joined

Join ==
  /\ open = {}
  /\ joined' = TRUE
  /\ UNCHANGED <<open, done>>

Next == Join \/ \E j \in Job : Give(j) \/ Finish(j)

Spec == Init /\ [][Next]_<<open, done, joined>>
=============================================================================
