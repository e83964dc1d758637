------------------------------ MODULE MCOtaBus ------------------------------
(* One run for the two modules of the bus: when messages arrive, and what    *)
(* they carry.  Neither reads the variables of the other, so a behaviour is  *)
(* one of either (view); the fairness of OtaLink rules out those of OtaWire, *)
(* of which only an invariant is checked.                                    *)
EXTENDS OtaLink, OtaWire

CONSTANT c1

AllTransports == {"fdbus", "ros", "vsomeip"}

Case(bus, domains, controls, details) ==
  [ transport |-> bus, listed |-> domains,
    sends |-> [kind \in Kind |-> IF kind = "control" THEN controls ELSE details] ]

\* A client that watches, beside the upgrade or as its domain.  After two messages of
\* a kind the numbers begin again, after three again with 1.
FewMessages ==
  { Case("fdbus", {}, 3, 1), Case("ros", {}, 2, 1), Case("ros", {}, 1, 2),
    Case("vsomeip", {}, 1, 2), Case("vsomeip", {c1}, 2, 0) }

VARIABLE view  \* (fixed) the module whose steps are taken

busVars == <<vars, wireVars, view>>

BusInit ==
  /\ Init /\ WireInit
  /\ \/ view = "link" /\ built = transport
     \/ view = "wire" /\ [transport |-> transport, listed |-> listed, sends |-> sends] =
          CHOOSE case \in Cases : case.transport = built

BusNext ==
  \/ view = "link" /\ Next /\ UNCHANGED <<wireVars, view>>
  \/ view = "wire" /\ WireNext /\ UNCHANGED <<vars, view>>

BusSpec == BusInit /\ [][BusNext]_busVars /\ LinkFairness
=============================================================================
