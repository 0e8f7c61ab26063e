-------------------------- MODULE MCTcpConnection --------------------------
(* Small instances of TcpConnection for TLC.                               *)
EXTENDS TcpConnection

(* Three payloads up to the largest allowed, and one byte too many.        *)
LargestAndOversize == <<1, 0, 2, 3>>
OneFrame == <<1>>
=============================================================================
