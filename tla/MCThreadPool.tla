---------------------------- MODULE MCThreadPool ----------------------------
(***************************************************************************)
(* TLC instances of ThreadPool.                                            *)
(***************************************************************************)
EXTENDS ThreadPool

MCWorker == 1 .. 3
MCTask == 1 .. 2
OneWorker == {1}
OneTask == {1}

=============================================================================
