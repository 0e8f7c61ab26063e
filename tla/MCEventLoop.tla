---------------------------- MODULE MCEventLoop ----------------------------
(* A small instance of EventLoop for TLC.                                  *)
EXTENDS EventLoop

CONSTANTS f1, f2, f3, w1, w2

FunctorSet == {f1, f2, f3}
TwoPosters == {w1, w2}
=============================================================================
