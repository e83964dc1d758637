-------------------------- MODULE MCOtaDeployment --------------------------
(* Three domains: two that need nobody, and one that needs the second. *)
EXTENDS OtaDeployment

CONSTANTS d1, d2, d3, a1

AllOrder == <<d1, d2, d3>>
OneVersion == [a \in {a1} |-> 1]
ThirdRequires == [d \in Domain |-> IF d = d3 THEN {d2} ELSE {}]

Forced ==
  { [id |-> a1, download |-> "MTHD_FORCED", deploy |-> "MTHD_FORCED", domains |-> Domain] }

Whole == {[present |-> Domain, cancels |-> FALSE, offers |-> 1, faults |-> 0]}

\* The state without what the last step sent.
WithoutOutput ==
  <<state, lastState, status, bootVars, job, requestVars, control, client,
    busVars, backVars, slipped>>
=============================================================================
