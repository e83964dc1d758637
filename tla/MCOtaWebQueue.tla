--------------------------- MODULE MCOtaWebQueue ---------------------------
(* Small instances of OtaWebQueue for TLC. *)
EXTENDS OtaWebQueue

CONSTANTS a1

\* The backend may offer one upgrade.
OneUpgrade == {[id |-> a1]}
Empty == [id |-> NoId]
=============================================================================
