---------------------------- MODULE MCOtaSystem ----------------------------
(* Small instances of OtaSystem for TLC. *)
EXTENDS OtaSystem

CONSTANTS d1, d2, d3, a1

AllOrder == <<d1, d2, d3>>
OneVersion == [a \in {a1} |-> 1]

\* The second domain has to wait for the first.
TwoRequires == [d \in Domain |-> IF d = d2 THEN {d1} ELSE {}]

Offer(method, domains) ==
  [id |-> a1, download |-> method, deploy |-> method, domains |-> domains]
Forced == {Offer("MTHD_FORCED", c.present) : c \in Vehicles}

Case(present, cancels, n, faulty) ==
  [present |-> present, cancels |-> cancels, offers |-> n, faults |-> faulty]

\* Two domains, the second of which waits for the first; one with a fault, to which
\* a server that starts again is offered the upgrade again; one that shows the upgrade
\* to a user, and a backend that cancels.
ThreeCases ==
  { Case({d1, d2}, FALSE, 1, 0), Case({d1}, FALSE, 1, 1), Case({d3}, TRUE, 1, 0) }

\* The state without what the last step sent.
WithoutOutput ==
  <<state, lastState, status, bootVars, job, requestVars, control, client,
    busVars, backVars>>
=============================================================================
