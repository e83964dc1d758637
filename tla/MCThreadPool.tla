---------------------------- MODULE MCThreadPool ----------------------------
(* The thread pool with two workers and three jobs. *)
EXTENDS ThreadPool
CONSTANTS w1, w2, j1, j2, j3
=============================================================================
