---------------------------- MODULE MCOtaViewer ----------------------------
(* A small instance of OtaViewer for TLC: one domain to upgrade, and the viewer. *)
EXTENDS OtaViewer

CONSTANTS d1, v, a1

OneOrder == <<d1, v>>
NoRequires == [d \in {d1, v} |-> {}]

Asked ==
  {[id |-> a1, download |-> "MTHD_ATTEMPT", deploy |-> "MTHD_ATTEMPT", domains |-> {d1}]}

Say(st, last, version, error) ==
  [state |-> st, last |-> last, version |-> version, error |-> error]

\* What the domain reports when it is found, waits, has deployed, was cancelled, failed.
FewReports ==
  { Say("WR_IDLE", "WR_OFFLINE", "old", FALSE),
    Say("WR_WAIT", "WR_PATCH", "old", FALSE),
    Say("WR_IDLE", "WR_DEPLOY", "new", FALSE),
    Say("WR_IDLE", "WR_CANCEL", "old", FALSE),
    Say("WR_ERROR", "WR_DEPLOY", "old", TRUE) }

\* One upgrade and its cancellation, or another, with whatever goes wrong in it; one
\* whose viewer loses its connection; and one offered again after a restart, with no
\* answer from the domain.
ThreeCases ==
  { [reports |-> FewReports, requests |-> 2, breaks |-> 0],
    [reports |-> {r \in FewReports : r.state = "WR_WAIT" \/ r.last = "WR_DEPLOY"},
     requests |-> 1, breaks |-> 1],
    [reports |-> {}, requests |-> 2, breaks |-> 1] }

\* The state without what the last step sent.
WithoutOutput ==
  <<state, lastState, status, bootVars, job, requestVars, control, clientVars, wire,
    windowVars, answers, plan, requests, breaks>>
=============================================================================
