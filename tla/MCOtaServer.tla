---------------------------- MODULE MCOtaServer ----------------------------
(* Small instances of OtaServer for TLC. *)
EXTENDS OtaServer

CONSTANTS d1, a1

\* One domain, which is also the one the user looks at.
OneOrder == <<d1>>
OneRequires == [d \in {d1} |-> {}]

Offer(id, download, deploy, domains) ==
  [id |-> id, download |-> download, deploy |-> deploy, domains |-> domains]

\* An upgrade the user is asked about, and a forced one.
OneUpgrades ==
  { Offer(a1, "MTHD_ATTEMPT", "MTHD_ATTEMPT", {d1}),
    Offer(a1, "MTHD_FORCED", "MTHD_FORCED", {d1}) }

\* The state without what the last step sent: no guard and no invariant reads
\* that, and an action property is evaluated on every step all the same.
WithoutOutput == <<state, lastState, status, bootVars, job, requestVars, control>>

Report(st, last, version, error) ==
  [state |-> st, last |-> last, version |-> version, error |-> error]

\* What a client reports as it goes through an upgrade, a cancellation, an error.
SomeReports ==
  { Report("WR_WAIT", "WR_PATCH", "old", FALSE),
    Report("WR_DEPLOY", "WR_WAIT", "old", FALSE),
    Report("WR_IDLE", "WR_DEPLOY", "new", FALSE),
    Report("WR_IDLE", "WR_CANCEL", "old", FALSE),
    Report("WR_ERROR", "WR_DEPLOY", "old", TRUE) }
=============================================================================
