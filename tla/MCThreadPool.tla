---------------------------- MODULE MCThreadPool ----------------------------
(* A small instance of ThreadPool for TLC.                                 *)
EXTENDS ThreadPool

CONSTANTS t1, t2, t3, w1, w2, reactor, other

TaskSet == {t1, t2, t3}
TwoWorkers == {w1, w2}
TwoCallers == {reactor, other}
=============================================================================
