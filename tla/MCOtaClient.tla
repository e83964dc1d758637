---------------------------- MODULE MCOtaClient ----------------------------
(* Small instances of OtaClient for TLC. *)
EXTENDS OtaClient

CONSTANTS d1, d2, a1

OneRequires == [d \in {d1} |-> {d2}]
OneVersion == [a \in {a1} |-> 1]

Message(control, id, domains, depends) ==
  [control |-> control, id |-> id, domains |-> domains, depends |-> depends]

\* The messages of upgrade a1, among them a deployment that has to wait for d2.
OneControls ==
  { Message(c, a1, {d1}, {}) :
      c \in {"CTL_RESET", "CTL_DOWNLOAD", "CTL_DEPLOY", "CTL_CANCEL", "CTL_CLEAR"} }
    \cup { Message("CTL_DEPLOY", a1, {d1}, {d2}) }
=============================================================================
