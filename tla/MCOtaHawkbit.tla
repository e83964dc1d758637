----------------------------- MODULE MCOtaHawkbit ----------------------------
(* Small instances of OtaHawkbit for TLC. *)
EXTENDS OtaHawkbit

CONSTANTS a1, a2

Described(id, download, update, links) ==
  [ id |-> id, download |-> download, update |-> update, window |-> TRUE,
    links |-> links ]

\* An action, the same when its download is forced, and another.
ThreeDocuments ==
  { Described(a1, "attempt", "attempt", {"download-http"}),
    Described(a1, "forced", "attempt", LinkName),
    Described(a2, "other", "forced", {}) }
=============================================================================
