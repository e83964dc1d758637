--------------------------- MODULE MCHttpTransfer ---------------------------
(* One domain pulls two files, or one of them with accidents. *)
EXTENDS HttpTransfer
CONSTANTS f1, f2

OneOrTwo == {<<f2>>, <<f1, f2>>}
TwoOrNone == [o \in OneOrTwo |-> IF Len(o) = 1 THEN 2 ELSE 0]
OwnUrl == [f \in {f1, f2} |-> f]
OneAndTwo == [f \in File |-> IF f = f1 THEN 1 ELSE 2]
=============================================================================
