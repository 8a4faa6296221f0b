---------------------------- MODULE MCThreadPool ----------------------------
(* A small instance of ThreadPool: with main, as many threads as jobs.     *)
EXTENDS ThreadPool

CONSTANTS w1, w2, main

MCTwoWorkers    == {w1, w2}
MCChecksFailing == {COMP_OK, -4}        (* ISAL_INVALID_LEVEL              *)
=============================================================================
