---------------------------- MODULE MCOtaProgress ---------------------------
(* Small instances of OtaProgress for TLC. *)
EXTENDS OtaProgress

CONSTANTS d1, a1

OneOrder == <<d1>>
OneRequires == [d \in {d1} |-> {}]

\* A forced upgrade of the one domain.
ForcedUpgrade ==
  { [ id |-> a1, download |-> "MTHD_FORCED", deploy |-> "MTHD_FORCED",
      domains |-> {d1} ] }

Said(st, version) ==
  [state |-> st, last |-> "WR_IDLE", version |-> version, error |-> FALSE]

\* The domain is found and waits; it deploys, and has deployed.
FirstReports == {Said("WR_WAIT", "old")}
LastReports == {Said("WR_WAIT", "old"), Said("WR_DEPLOY", "old"), Said("WR_IDLE", "new")}

\* Transfers with events that overtake each other; a backend that changes its mind;
\* an upgrade to its end.
Case(reports, n, waiting) == [reports |-> reports, offers |-> n, events |-> waiting]
ThreeCases ==
  {Case(FirstReports, 1, 2), Case(FirstReports, 2, 1), Case(LastReports, 1, 1)}

WithoutOutput == <<serverVars, webVars, inbox, historyVars, shownVars, moved, installed, plan>>
=============================================================================
