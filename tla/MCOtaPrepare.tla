---------------------------- MODULE MCOtaPrepare ----------------------------
(* Two patches at once; or two upgrades for a client, of which one brings a plain *)
(* file and a patch.                                                               *)
EXTENDS OtaPrepare
CONSTANTS p, q, r, n, u1, u2, u3

Offered == [u \in Upgrade |-> CASE u = u1 -> {p, q} [] u = u2 -> {q, r} [] u = u3 -> {n}]
=============================================================================
